---- MODULE Spec2Model ----
(***************************************************************************)
(* Model of the backtesting core of Rayquasa: the Portfolio ledger         *)
(* (src/backtest.py), the StockSelector (src/stock_selector.py), the       *)
(* TradingEngine (src/trading_engine.py), StockTradingAlgorithm.run        *)
(* (src/stock_trading_algorithm.py) and Backtester.run (src/backtest.py).  *)
(*                                                                         *)
(* Numbers.  The program computes with floats; the model computes with     *)
(* integers counted in quanta.  A share balance is a number of share       *)
(* quanta, a price a number of price quanta, and money (cash, cost,        *)
(* proceeds, amounts, values) is counted in cash quanta, one cash quantum  *)
(* being one share quantum times one price quantum, so that shares * price *)
(* is exact.  The share quantum is 5e-11 share: the threshold 1e-10 of     *)
(* Portfolio.sell is DustEps = 2 quanta and the tolerance 1e-9 is          *)
(* Tolerance = 20 quanta.  +, - and * are exact; a float division is       *)
(* rounded to the nearest quantum (FDiv).  Ratios (changes, scores,        *)
(* returns) are kept as num / den; nan, inf and -inf are values of their   *)
(* own (NaN, Inf), and None is the ratio 0 / 0.                            *)
(*                                                                         *)
(* Specifications.  LedgerSpec calls the Portfolio freely; Spec is one     *)
(* Backtester.run; EngineSpec and SelectorSpec call the functions of the   *)
(* TradingEngine and the StockSelector on inputs drawn at the start;       *)
(* DrawdownSpec computes the results over a growing history.               *)
(* DriverSpec is one Backtester.run over fifty dates; RerunSpec calls run  *)
(* twice on one Backtester; ConcurrentSpec interleaves the runs of two     *)
(* Backtester instances (backtesters); RunnerSpec is one call of           *)
(* run_backtest (src/algorithms/backtest_runner.py) on a stored            *)
(* BacktestResult (objects); ViewSpec is one BacktestCreateView.post       *)
(* (src/algorithms/views.py).                                              *)
(***************************************************************************)
EXTENDS Integers, Sequences, FiniteSets, TLC

VARIABLES portfolio, call, ncalls,
          feed, weeks, pc, i, weeks_processed, trade_log, result,
          args, ret,
          backtesters, objects

vars == <<portfolio, call, ncalls,
          feed, weeks, pc, i, weeks_processed, trade_log, result,
          args, ret,
          backtesters, objects>>

\* The Backtester instances that run side by side and the stored
\* BacktestResult records (BacktestResult.objects).
outerVars == <<backtesters, objects>>

\* The arguments and the return value of a call of a function of the
\* TradingEngine or the StockSelector.
unitVars == <<args, ret>>

runVars == <<feed, weeks, pc, i, weeks_processed, trade_log, result>>

\* ------------------------------------------------------------------ bounds

Symbols == {"A", "B"}

\* Largest number of share quanta one ledger call trades.
MaxShares == 3

\* Largest price (in price quanta) a ledger call or a price map uses.
MaxPrice == 2

\* Number of ledger calls made on one Portfolio.
MaxCalls == 3

\* ------------------------------------------------------- program constants

\* 1e-10 share, in share quanta (Portfolio.sell).
DustEps == 2

\* 1e-9 share, in share quanta: ten times DustEps.
Tolerance == 10 * DustEps

\* ------------------------------------------------------------- python dict

None == "None"

EmptyDict == [x \in {} |-> 0]

\* d.get(k, default)
Get(d, k, default) == IF k \in DOMAIN d THEN d[k] ELSE default

\* d[k] = v
Put(d, k, v) == [x \in DOMAIN d \cup {k} |-> IF x = k THEN v ELSE d[x]]

\* del d[k]
Del(d, k) == [x \in DOMAIN d \ {k} |-> d[x]]

RECURSIVE SumOver(_, _, _)
\* sum(shares * current_prices.get(symbol, 0) for symbol, shares in d.items())
\* restricted to the symbols in S.
SumOver(S, d, current_prices) ==
    IF S = {} THEN 0
    ELSE LET s == CHOOSE x \in S : TRUE
         IN  d[s] * Get(current_prices, s, 0)
               + SumOver(S \ {s}, d, current_prices)

\* --------------------------------------------------------------- Portfolio

\* Portfolio.__init__
NewPortfolio(initial_cash) ==
    [cash |-> initial_cash, holdings |-> EmptyDict, history |-> << >>]

\* Portfolio.buy with the test 'cost < self.cash'.
buy_StrictAfford(pf, symbol, shares, price) ==
    LET cost == shares * price
    IN  IF cost < pf.cash
        THEN [pf  |-> [pf EXCEPT !.cash = @ - cost,
                                 !.holdings = Put(@, symbol,
                                                  Get(@, symbol, 0) + shares)],
              ret |-> TRUE]
        ELSE [pf |-> pf, ret |-> FALSE]

\* Portfolio.buy: the ledger after the call and the value returned.
buy(pf, symbol, shares, price) ==
    LET cost == shares * price
    IN  IF cost <= pf.cash
        THEN [pf  |-> [pf EXCEPT !.cash = @ - cost,
                                 !.holdings = Put(@, symbol,
                                                  Get(@, symbol, 0) + shares)],
              ret |-> TRUE]
        ELSE [pf |-> pf, ret |-> FALSE]

\* Portfolio.sell with the test 'self.holdings[symbol] > shares'.
sell_StrictHeld(pf, symbol, shares, price) ==
    IF symbol \in DOMAIN pf.holdings /\ pf.holdings[symbol] > shares
    THEN LET proceeds == shares * price
             left     == pf.holdings[symbol] - shares
         IN  [pf  |-> [pf EXCEPT !.cash = @ + proceeds,
                                 !.holdings = IF left < DustEps
                                              THEN Del(@, symbol)
                                              ELSE Put(@, symbol, left)],
              ret |-> TRUE]
    ELSE [pf |-> pf, ret |-> FALSE]

\* Portfolio.sell removing the entry when 'self.holdings[symbol] <= 1e-10'.
sell_DropAtThreshold(pf, symbol, shares, price) ==
    IF symbol \in DOMAIN pf.holdings /\ pf.holdings[symbol] >= shares
    THEN LET proceeds == shares * price
             left     == pf.holdings[symbol] - shares
         IN  [pf  |-> [pf EXCEPT !.cash = @ + proceeds,
                                 !.holdings = IF left <= DustEps
                                              THEN Del(@, symbol)
                                              ELSE Put(@, symbol, left)],
              ret |-> TRUE]
    ELSE [pf |-> pf, ret |-> FALSE]

\* Portfolio.sell without 'self.cash += proceeds'.
sell_NoCredit(pf, symbol, shares, price) ==
    IF symbol \in DOMAIN pf.holdings /\ pf.holdings[symbol] >= shares
    THEN LET left == pf.holdings[symbol] - shares
         IN  [pf  |-> [pf EXCEPT !.holdings = IF left < DustEps
                                              THEN Del(@, symbol)
                                              ELSE Put(@, symbol, left)],
              ret |-> TRUE]
    ELSE [pf |-> pf, ret |-> FALSE]

\* Portfolio.sell: the ledger after the call and the value returned.
sell(pf, symbol, shares, price) ==
    IF symbol \in DOMAIN pf.holdings /\ pf.holdings[symbol] >= shares
    THEN LET proceeds == shares * price
             left     == pf.holdings[symbol] - shares
         IN  [pf  |-> [pf EXCEPT !.cash = @ + proceeds,
                                 !.holdings = IF left < DustEps
                                              THEN Del(@, symbol)
                                              ELSE Put(@, symbol, left)],
              ret |-> TRUE]
    ELSE [pf |-> pf, ret |-> FALSE]

\* Portfolio.get_value returning the holdings value without the cash.
get_value_NoCash(pf, current_prices) ==
    SumOver(DOMAIN pf.holdings, pf.holdings, current_prices)

\* Portfolio.get_value
get_value(pf, current_prices) ==
    LET holdings_value == SumOver(DOMAIN pf.holdings, pf.holdings, current_prices)
    IN  pf.cash + holdings_value

\* 'holdings': self.holdings, the live mapping instead of a copy of it.
CopyOfHoldings_Alias(pf) == [ref |-> "live"]

\* dict(self.holdings): the snapshot owns a copy of the mapping.  A snapshot
\* holding the live mapping itself would be [ref |-> "live"].
CopyOfHoldings(pf) == [ref |-> "copy", dict |-> pf.holdings]

\* Portfolio.record_state
record_state(pf, date, current_prices) ==
    LET total_value    == get_value(pf, current_prices)
        holdings_value == total_value - pf.cash
    IN  [pf EXCEPT !.history =
            Append(@, [date           |-> date,
                       cash           |-> pf.cash,
                       holdings_value |-> holdings_value,
                       total_value    |-> total_value,
                       holdings       |-> CopyOfHoldings(pf)])]

\* What a snapshot of pf.history shows when it is read: the mapping its
\* 'holdings' field refers to.
ReadSnapshot(pf, k) ==
    LET rec == pf.history[k]
    IN  [rec EXCEPT !.holdings = IF rec.holdings.ref = "live"
                                 THEN pf.holdings
                                 ELSE rec.holdings.dict]

\* ----------------------------------------------------- ledger, called freely

\* Price maps handed to get_value and record_state: any subset of the symbols.
PriceMaps == UNION {[D -> 1..MaxPrice] : D \in SUBSET Symbols}

\* The record of one call: its arguments, the value it returned and the
\* ledger it was made on (pre).
\* (ok: what buy or sell returned; value: what get_value returned.)
NoCall == [op |-> "none", symbol |-> None, shares |-> 0, price |-> 0,
           prices |-> EmptyDict, ok |-> FALSE, value |-> 0,
           pre |-> NewPortfolio(0)]

\* No function of the engine or the selector has been called: args holds
\* the engine and selector configurations and the stock_data of the call,
\* ret the name of the function called last and what it returned.
NoArgs == [eng  |-> [buy_threshold |-> 0, sell_threshold |-> 0,
                     buy_amount |-> 0, sell_amount |-> 0],
           sel  |-> [min_volatility |-> 0, max_volatility |-> 0,
                     min_data_points |-> 0],
           data |-> EmptyDict]

NoRet == [fn         |-> "none",
          symbol     |-> None,
          change     |-> [num |-> 0, den |-> 0],
          sig        |-> [signal |-> "HOLD", amount |-> 0,
                          pct_change |-> [num |-> 0, den |-> 0]],
          trades     |-> EmptyDict,
          summary    |-> [total_buys |-> 0, total_sells |-> 0, buy_value |-> 0,
                          sell_value |-> 0, net_position |-> 0],
          volatility |-> 0,
          score      |-> [num |-> 0, den |-> 0],
          suitable   |-> FALSE,
          universe   |-> << >>]

LedgerInit ==
    /\ \E c \in {0, 4, 6} : portfolio = NewPortfolio(c)
    /\ call = [NoCall EXCEPT !.pre = portfolio]
    /\ ncalls = 0
    /\ feed = EmptyDict
    /\ weeks = 0
    /\ pc = "api"
    /\ i = 0
    /\ weeks_processed = 0
    /\ trade_log = << >>
    /\ result = None
    /\ args = NoArgs
    /\ ret = NoRet
    /\ backtesters = << >>
    /\ objects = << >>

Buy ==
    \E s \in Symbols, n \in 0..MaxShares, p \in 0..MaxPrice :
        /\ pc = "api" /\ ncalls < MaxCalls
        /\ LET r == buy(portfolio, s, n, p)
           IN  /\ portfolio' = r.pf
               /\ call' = [NoCall EXCEPT !.op = "buy", !.symbol = s,
                                         !.shares = n, !.price = p, !.ok = r.ret,
                                         !.pre = portfolio]
        /\ ncalls' = ncalls + 1
        /\ UNCHANGED runVars
        /\ UNCHANGED <<unitVars, outerVars>>

Sell ==
    \E s \in Symbols, n \in 0..MaxShares, p \in 0..MaxPrice :
        /\ pc = "api" /\ ncalls < MaxCalls
        /\ LET r == sell(portfolio, s, n, p)
           IN  /\ portfolio' = r.pf
               /\ call' = [NoCall EXCEPT !.op = "sell", !.symbol = s,
                                         !.shares = n, !.price = p, !.ok = r.ret,
                                         !.pre = portfolio]
        /\ ncalls' = ncalls + 1
        /\ UNCHANGED runVars
        /\ UNCHANGED <<unitVars, outerVars>>

GetValue ==
    \E P \in PriceMaps :
        /\ pc = "api" /\ ncalls < MaxCalls
        /\ call' = [NoCall EXCEPT !.op = "get_value", !.prices = P,
                                  !.value = get_value(portfolio, P),
                                  !.pre = portfolio]
        /\ ncalls' = ncalls + 1
        /\ UNCHANGED <<portfolio, runVars>>
        /\ UNCHANGED <<unitVars, outerVars>>

RecordState ==
    \E P \in PriceMaps :
        /\ pc = "api" /\ ncalls < MaxCalls
        /\ portfolio' = record_state(portfolio, ncalls, P)
        /\ call' = [NoCall EXCEPT !.op = "record_state", !.prices = P,
                                  !.pre = portfolio]
        /\ ncalls' = ncalls + 1
        /\ UNCHANGED runVars
        /\ UNCHANGED <<unitVars, outerVars>>

LedgerNext == Buy \/ Sell \/ GetValue \/ RecordState

LedgerSpec == LedgerInit /\ [][LedgerNext]_vars

\* ------------------------------------------------------------ float helpers

\* One unit of a ratio (a return, a volatility, a threshold): a basis point.
RScale == 100 * 100

\* float('inf'): every finite number of the model is smaller in magnitude.
\* -Inf is float('-inf').
Inf == 1000000

\* np.nan: a value no finite number and no infinity has.
NaN == -2000000

IsNaN(x) == x = NaN

IsInf(x) == x = Inf \/ x = -Inf

\* 1e-10 as a price: the price quantum of the engine's inputs.
PriceEps == 1

\* a - b of two floats.
FSub(a, b) ==
    IF IsNaN(a) \/ IsNaN(b) THEN NaN
    ELSE IF IsInf(a) /\ a = b THEN NaN
    ELSE IF IsInf(a) THEN a
    ELSE IF IsInf(b) THEN -b
    ELSE a - b

\* a / b for b > 0, rounded to the nearest quantum.
FDiv(a, b) == (2 * a + b) \div (2 * b)

Abs(x) == IF x < 0 THEN -x ELSE x

Min(a, b) == IF a <= b THEN a ELSE b

Max(a, b) == IF a >= b THEN a ELSE b

\* A float kept as a ratio num / den with den > 0; den = 0 is None (or nan).
Ratio(n, d) == [num |-> n, den |-> d]

\* None
NoRatio == Ratio(0, 0)

\* nan, inf and -inf as results.
NanRatio == Ratio(NaN, 0)

InfRatio(sign) == Ratio(sign * Inf, 0)

IsNone(r) == r.den = 0 /\ r.num = 0

IsNanRatio(r) == r.den = 0 /\ r.num = NaN

IsFiniteRatio(r) == r.den > 0

\* r1 <= r2 for two floats, neither None: false when either is nan, and
\* -inf <= x <= inf for every other x.
RatioLeq(r1, r2) ==
    IF IsFiniteRatio(r1) /\ IsFiniteRatio(r2)
    THEN r1.num * r2.den <= r2.num * r1.den
    ELSE /\ ~IsNanRatio(r1) /\ ~IsNanRatio(r2)
         /\ \/ r1 = InfRatio(-1)
            \/ r2 = InfRatio(1)

\* a / b of two floats, b not 0.
FQuot(a, b) ==
    IF IsNaN(a) \/ IsNaN(b) THEN NanRatio
    ELSE IF IsInf(a) /\ IsInf(b) THEN NanRatio
    ELSE IF IsInf(a) THEN InfRatio(IF (a > 0) = (b > 0) THEN 1 ELSE -1)
    ELSE IF IsInf(b) THEN Ratio(0, 1)
    ELSE IF b > 0 THEN Ratio(a, b)
    ELSE Ratio(-a, -b)

\* F(v) with v evaluated once, before F is applied to it.
With(v, F(_)) == CHOOSE r \in {F(x) : x \in {v}} : TRUE

RECURSIVE SqrtBits(_, _, _)
\* The largest r + k with k < 2 * b and (r + k) * (r + k) <= n, for b a
\* power of two (or 0) and r * r <= n: the square root bit by bit.
SqrtBits(n, r, b) ==
    IF b = 0 THEN r
    ELSE IF (r + b) * (r + b) <= n THEN SqrtBits(n, r + b, b \div 2)
                                   ELSE SqrtBits(n, r, b \div 2)

\* np.sqrt of n < 2^30, rounded down.
Sqrt(n) == SqrtBits(n, 0, 2 ^ 14)

RECURSIVE SumTo(_, _)
\* q[1] + ... + q[k]
SumTo(q, k) == IF k = 0 THEN 0 ELSE q[k] + SumTo(q, k - 1)

\* sum(q)
SeqSum(q) == SumTo(q, Len(q))

\* ------------------------------------------------------------ price series

\* A series is a sequence of points [t |-> date, p |-> price], dates strictly
\* increasing (pd.Series indexed by date).  prices.iloc[k] is q[k + 1].
PricesOf(series) == [k \in 1..Len(series) |-> series[k].p]

DatesOf(series) == {series[k].t : k \in 1..Len(series)}

\* prices.pct_change().dropna(), in basis points.
pct_change(prices) ==
    [k \in 1..(Len(prices) - 1) |->
        FDiv((prices[k + 1] - prices[k]) * RScale, prices[k])]

\* The keys of a dict in insertion order: stock_data is filled symbol by
\* symbol in the order of the symbols list.
SymbolOrder == <<"A", "B">>

Keys(d) == SelectSeq(SymbolOrder, LAMBDA s : s \in DOMAIN d)

\* ----------------------------------------------------------- StockSelector

\* StockSelector.__init__ defaults: 0.01 and 0.5 in basis points, 30 points.
MinVolatility == 100

MaxVolatility == 5000

MinDataPoints == 30

\* np.sqrt(252) squared: trading days per year.
TradingDays == 252

DefaultSelector == [min_volatility  |-> MinVolatility,
                    max_volatility  |-> MaxVolatility,
                    min_data_points |-> MinDataPoints]

\* returns.std(): the sample standard deviation (ddof = 1), squared; NaN for
\* a single return.
SampleVariance(returns) ==
    LET n  == Len(returns)
        s1 == SeqSum(returns)
        s2 == With([k \in 1..n |-> returns[k] * returns[k]], SeqSum)
    IN  IF n < 2 THEN NaN
        ELSE With(s1, LAMBDA s : (n * s2 - s * s) \div (n * (n - 1)))

\* StockSelector.calculate_volatility, in basis points.
calculate_volatility(prices) ==
    IF Len(prices) < 2 THEN NaN
    ELSE With(pct_change(prices), LAMBDA returns :
           IF Len(returns) = 0 THEN NaN
           ELSE With(SampleVariance(returns), LAMBDA variance :
                  IF variance = NaN THEN NaN
                  ELSE With(variance * TradingDays, Sqrt)))

\* (returns[1:].values * returns[:-1].values > 0).sum()
same_direction(returns) ==
    Cardinality({k \in 1..(Len(returns) - 1) : returns[k + 1] * returns[k] > 0})

\* StockSelector.calculate_predictability_score, as a ratio.  Distances are
\* doubled so that the midpoint of the band is a whole number.
calculate_predictability_score(cfg, prices) ==
    IF Len(prices) < cfg.min_data_points THEN Ratio(0, 1)
    ELSE
    With(calculate_volatility(prices), LAMBDA volatility :
        IF volatility = NaN THEN Ratio(0, 1)
        ELSE
        LET distance_from_mid ==
                Abs(2 * volatility - (cfg.min_volatility + cfg.max_volatility))
            max_distance == cfg.max_volatility - cfg.min_volatility
            volatility_score ==
                IF volatility < cfg.min_volatility
                     \/ volatility > cfg.max_volatility
                THEN Ratio(0, 1)
                ELSE IF max_distance = 0 THEN NanRatio
                ELSE Ratio(max_distance - distance_from_mid, max_distance)
        IN  With(pct_change(prices), LAMBDA returns :
            IF Len(returns) < 2 THEN Ratio(0, 1)
            ELSE
            LET consistency_score ==
                    Ratio(same_direction(returns), Len(returns) - 1)
            IN  IF IsNanRatio(volatility_score) THEN NanRatio
                ELSE Ratio(6 * volatility_score.num * consistency_score.den
                             + 4 * consistency_score.num * volatility_score.den,
                           10 * volatility_score.den * consistency_score.den)))

\* is_suitable with 'predictability >= 0.3'.
is_suitable_ScoreInclusive(cfg, prices) ==
    IF Len(prices) < cfg.min_data_points THEN FALSE
    ELSE
    With(calculate_volatility(prices), LAMBDA volatility :
        IF volatility = NaN THEN FALSE
        ELSE IF volatility < cfg.min_volatility
                  \/ volatility > cfg.max_volatility THEN FALSE
        ELSE With(calculate_predictability_score(cfg, prices),
                  LAMBDA predictability :
                      RatioLeq(Ratio(3, 10), predictability)))

\* StockSelector.is_suitable
is_suitable(cfg, prices) ==
    IF Len(prices) < cfg.min_data_points THEN FALSE
    ELSE
    With(calculate_volatility(prices), LAMBDA volatility :
        IF volatility = NaN THEN FALSE
        ELSE IF volatility < cfg.min_volatility
                  \/ volatility > cfg.max_volatility THEN FALSE
        ELSE With(calculate_predictability_score(cfg, prices),
                  LAMBDA predictability :
                      ~RatioLeq(predictability, Ratio(3, 10))
                        /\ ~IsNanRatio(predictability)))

\* filter_stocks that appends every symbol.
filter_stocks_NoFilter(cfg, data) == Keys(data)

\* StockSelector.filter_stocks: the suitable symbols, in the order of the dict.
filter_stocks(cfg, data) ==
    SelectSeq(Keys(data),
              LAMBDA s : With(PricesOf(data[s]),
                              LAMBDA prices : is_suitable(cfg, prices)))

\* ----------------------------------------------------------- TradingEngine

\* TradingEngine.__init__ defaults: -0.05 and 0.10 in basis points; 5.0 and
\* 10.0 in cash quanta of 0.001.
BuyThreshold == -500

SellThreshold == 1000

BuyAmount == 5000

SellAmount == 10000

\* prices.iloc[-7]: the point WeekSpan - 1 places before the last.
WeekSpan == 7

DefaultEngine == [buy_threshold  |-> BuyThreshold,
                  sell_threshold |-> SellThreshold,
                  buy_amount     |-> BuyAmount,
                  sell_amount    |-> SellAmount]

\* TradingEngine.calculate_weekly_change, as a ratio; NoRatio is None.
\* abs(nan) < 1e-10 and abs(inf) < 1e-10 are false.
calculate_weekly_change(prices) ==
    IF Len(prices) < 2 THEN NoRatio
    ELSE
    LET current_price  == prices[Len(prices)]
        week_ago_price == IF Len(prices) >= WeekSpan
                          THEN prices[Len(prices) - WeekSpan + 1]
                          ELSE prices[1]
    IN  IF IsNaN(week_ago_price) \/ IsNaN(current_price)
             \/ (~IsInf(week_ago_price) /\ Abs(week_ago_price) < PriceEps)
        THEN NoRatio
        ELSE FQuot(FSub(current_price, week_ago_price), week_ago_price)

\* generate_signal with '<' and '>' for '<=' and '>='.
generate_signal_StrictThresholds(eng, prices) ==
    With(calculate_weekly_change(prices), LAMBDA pct_chg :
        IF IsNone(pct_chg)
        THEN [signal |-> "HOLD", amount |-> 0, pct_change |-> pct_chg]
        ELSE IF ~RatioLeq(Ratio(eng.buy_threshold, RScale), pct_chg)
                  /\ ~IsNanRatio(pct_chg)
        THEN [signal |-> "BUY", amount |-> eng.buy_amount, pct_change |-> pct_chg]
        ELSE IF ~RatioLeq(pct_chg, Ratio(eng.sell_threshold, RScale))
                  /\ ~IsNanRatio(pct_chg)
        THEN [signal |-> "SELL", amount |-> eng.sell_amount, pct_change |-> pct_chg]
        ELSE [signal |-> "HOLD", amount |-> 0, pct_change |-> pct_chg])

\* TradingEngine.generate_signal
generate_signal(eng, prices) ==
    With(calculate_weekly_change(prices), LAMBDA pct_chg :
        IF IsNone(pct_chg)
        THEN [signal |-> "HOLD", amount |-> 0, pct_change |-> pct_chg]
        ELSE IF RatioLeq(pct_chg, Ratio(eng.buy_threshold, RScale))
        THEN [signal |-> "BUY", amount |-> eng.buy_amount, pct_change |-> pct_chg]
        ELSE IF RatioLeq(Ratio(eng.sell_threshold, RScale), pct_chg)
        THEN [signal |-> "SELL", amount |-> eng.sell_amount, pct_change |-> pct_chg]
        ELSE [signal |-> "HOLD", amount |-> 0, pct_change |-> pct_chg])

\* TradeOf with 'abs(current_price) >= 1e-10'.
TradeOf_SharesAtEps(eng, prices) ==
    LET sig           == generate_signal(eng, prices)
        current_price == prices[Len(prices)]
        shares        == IF current_price # 0 /\ Abs(current_price) >= PriceEps
                         THEN IF IsInf(current_price) THEN 0
                              ELSE FDiv(sig.amount, Abs(current_price))
                                     * (IF current_price < 0 THEN -1 ELSE 1)
                         ELSE 0
    IN  [signal        |-> sig.signal,
         amount        |-> sig.amount,
         shares        |-> shares,
         price         |-> current_price,
         weekly_change |-> sig.pct_change]

\* The entry execute_trades makes for one symbol.  A series that produced a
\* signal has at least two points, so current_price is never None, and it
\* is not nan; amount / inf is 0.
TradeOf(eng, prices) ==
    LET sig           == generate_signal(eng, prices)
        current_price == prices[Len(prices)]
        shares        == IF current_price # 0 /\ Abs(current_price) > PriceEps
                         THEN IF IsInf(current_price) THEN 0
                              ELSE FDiv(sig.amount, Abs(current_price))
                                     * (IF current_price < 0 THEN -1 ELSE 1)
                         ELSE 0
    IN  [signal        |-> sig.signal,
         amount        |-> sig.amount,
         shares        |-> shares,
         price         |-> current_price,
         weekly_change |-> sig.pct_change]

\* TradingEngine.execute_trades over the symbols listed in keys: a dict
\* symbol -> trade without the HOLD symbols.
execute_trades(eng, keys, data) ==
    LET traded == {keys[k] : k \in {j \in 1..Len(keys) :
                        generate_signal(eng, PricesOf(data[keys[j]])).signal
                            # "HOLD"}}
    IN  [s \in traded |-> With(PricesOf(data[s]),
                               LAMBDA prices : TradeOf(eng, prices))]

\* get_trade_summary with net_position = buy_value - sell_value.
get_trade_summary_NetReversed(trades) ==
    LET buy_trades  == {s \in DOMAIN trades : trades[s].signal = "BUY"}
        sell_trades == {s \in DOMAIN trades : trades[s].signal = "SELL"}
        RECURSIVE amounts(_)
        amounts(S) == IF S = {} THEN 0
                      ELSE LET s == CHOOSE x \in S : TRUE
                           IN  trades[s].amount + amounts(S \ {s})
    IN  [total_buys   |-> Cardinality(buy_trades),
         total_sells  |-> Cardinality(sell_trades),
         buy_value    |-> amounts(buy_trades),
         sell_value   |-> amounts(sell_trades),
         net_position |-> amounts(buy_trades) - amounts(sell_trades)]

\* TradingEngine.get_trade_summary
get_trade_summary(trades) ==
    LET buy_trades  == {s \in DOMAIN trades : trades[s].signal = "BUY"}
        sell_trades == {s \in DOMAIN trades : trades[s].signal = "SELL"}
        RECURSIVE amounts(_)
        amounts(S) == IF S = {} THEN 0
                      ELSE LET s == CHOOSE x \in S : TRUE
                           IN  trades[s].amount + amounts(S \ {s})
    IN  [total_buys   |-> Cardinality(buy_trades),
         total_sells  |-> Cardinality(sell_trades),
         buy_value    |-> amounts(buy_trades),
         sell_value   |-> amounts(sell_trades),
         net_position |-> amounts(sell_trades) - amounts(buy_trades)]

\* ---------------------------------------------------- StockTradingAlgorithm

\* StockTradingAlgorithm.run
algorithm_run(cfg, eng, data) ==
    LET suitable_stocks == filter_stocks(cfg, data)
        trades          == execute_trades(eng, suitable_stocks, data)
    IN  [suitable_stocks |-> suitable_stocks,
         trades          |-> trades,
         summary         |-> get_trade_summary(trades)]

\* ---------------------------------------------------------------- Backtester

\* 'if len(all_dates) < 14'
MinDates == 14

\* 'i = 7' and 'i += 7'
Stride == 7

\* sorted(S) for a set of dates: the k-th date has k - 1 dates before it.
SortedSeq(S) ==
    [k \in 1..Cardinality(S) |->
        CHOOSE x \in S : Cardinality({y \in S : y < x}) = k - 1]

\* set(date for prices in stock_data.values() for date in prices.index)
DateSet(data) == UNION {DatesOf(data[s]) : s \in DOMAIN data}

\* sorted(set(...)): all_dates[k] of the program is AllDates(data)[k + 1].
AllDates(data) == With(DateSet(data), SortedSeq)

\* The number of points of all the series together, a date counted once for
\* every series that has it.
PointCount(data) ==
    SeqSum([k \in 1..Len(Keys(data)) |-> Len(data[Keys(data)[k]])])

\* 'len(all_dates) < 14' with all_dates built without set().
InsufficientData_CountsPoints(data, all_dates) == PointCount(data) < MinDates

\* 'if len(all_dates) < 14'
InsufficientData(data, all_dates) == Len(all_dates) < MinDates

\* prices.loc[date] for a date of the index.
PriceAt(series, date) ==
    series[CHOOSE k \in 1..Len(series) : series[k].t = date].p

\* The price map of the first snapshot: the symbols with a price at
\* start_date.
StartPrices(data, start_date) ==
    [s \in {x \in DOMAIN data : start_date \in DatesOf(data[x])} |->
        PriceAt(data[s], start_date)]

\* window_data without 'mask = prices.index <= current_date': every series
\* whole.
WindowData_NoMask(data, current_date) == data

\* window_data: for each symbol with a point at or before current_date, the
\* points up to current_date.
WindowData(data, current_date) ==
    [s \in {x \in DOMAIN data : \E k \in 1..Len(data[x]) :
                                   data[x][k].t <= current_date} |->
        SelectSeq(data[s], LAMBDA e : e.t <= current_date)]

\* current_prices built from the windows that reach the latest date only: a
\* symbol whose series ended earlier gets no price.
WindowPrices_Current(window_data) ==
    LET latest(s) == window_data[s][Len(window_data[s])].t
    IN  [s \in {x \in DOMAIN window_data :
                    /\ Len(window_data[x]) > 0
                    /\ \A y \in DOMAIN window_data : latest(y) <= latest(x)}
            |-> window_data[s][Len(window_data[s])].p]

\* current_prices of a step: prices.iloc[-1] of every window.
WindowPrices(window_data) ==
    [s \in {x \in DOMAIN window_data : Len(window_data[x]) > 0} |->
        window_data[s][Len(window_data[s])].p]

\* The body of the loop over the trades without
\* 'actual_shares = min(shares_to_sell, self.portfolio.holdings[symbol])':
\* a SELL asks the ledger for shares_to_sell.
ProcessTrade_NoCap(st, symbol, trade, current_prices, current_date) ==
    IF symbol \notin DOMAIN current_prices THEN st
    ELSE
    LET price == current_prices[symbol]
    IN  IF trade.signal = "BUY"
        THEN LET shares == FDiv(trade.amount, price)
                 r      == buy(st.pf, symbol, shares, price)
             IN  IF r.ret
                 THEN [pf  |-> r.pf,
                       log |-> Append(st.log,
                                 [date          |-> current_date,
                                  symbol        |-> symbol,
                                  action        |-> "BUY",
                                  shares        |-> shares,
                                  price         |-> price,
                                  amount        |-> trade.amount,
                                  weekly_change |-> trade.weekly_change])]
                 ELSE st
        ELSE IF trade.signal = "SELL"
        THEN LET shares_to_sell == FDiv(trade.amount, price)
             IN  IF symbol \in DOMAIN st.pf.holdings
                 THEN LET actual_shares == shares_to_sell
                          r == sell(st.pf, symbol, actual_shares, price)
                      IN  IF r.ret
                          THEN [pf  |-> r.pf,
                                log |-> Append(st.log,
                                  [date          |-> current_date,
                                   symbol        |-> symbol,
                                   action        |-> "SELL",
                                   shares        |-> actual_shares,
                                   price         |-> price,
                                   amount        |-> actual_shares * price,
                                   weekly_change |-> trade.weekly_change])]
                          ELSE st
                 ELSE st
        ELSE st

\* The body of the loop over the trades with the BUY entry appended whatever
\* 'self.portfolio.buy(symbol, shares, price)' returned.
ProcessTrade_LogsRefused(st, symbol, trade, current_prices, current_date) ==
    IF symbol \notin DOMAIN current_prices THEN st
    ELSE
    LET price == current_prices[symbol]
    IN  IF trade.signal = "BUY"
        THEN LET shares == FDiv(trade.amount, price)
                 r      == buy(st.pf, symbol, shares, price)
             IN  IF TRUE
                 THEN [pf  |-> r.pf,
                       log |-> Append(st.log,
                                 [date          |-> current_date,
                                  symbol        |-> symbol,
                                  action        |-> "BUY",
                                  shares        |-> shares,
                                  price         |-> price,
                                  amount        |-> trade.amount,
                                  weekly_change |-> trade.weekly_change])]
                 ELSE st
        ELSE IF trade.signal = "SELL"
        THEN LET shares_to_sell == FDiv(trade.amount, price)
             IN  IF symbol \in DOMAIN st.pf.holdings
                 THEN LET actual_shares ==
                              Min(shares_to_sell, st.pf.holdings[symbol])
                          r == sell(st.pf, symbol, actual_shares, price)
                      IN  IF r.ret
                          THEN [pf  |-> r.pf,
                                log |-> Append(st.log,
                                  [date          |-> current_date,
                                   symbol        |-> symbol,
                                   action        |-> "SELL",
                                   shares        |-> actual_shares,
                                   price         |-> price,
                                   amount        |-> actual_shares * price,
                                   weekly_change |-> trade.weekly_change])]
                          ELSE st
                 ELSE st
        ELSE st

\* The body of 'for symbol, trade in results['trades'].items()' for one
\* symbol, on st = [pf |-> the ledger, log |-> the trade log].
ProcessTrade(st, symbol, trade, current_prices, current_date) ==
    IF symbol \notin DOMAIN current_prices THEN st
    ELSE
    LET price == current_prices[symbol]
    IN  IF trade.signal = "BUY"
        THEN LET shares == FDiv(trade.amount, price)
                 r      == buy(st.pf, symbol, shares, price)
             IN  IF r.ret
                 THEN [pf  |-> r.pf,
                       log |-> Append(st.log,
                                 [date          |-> current_date,
                                  symbol        |-> symbol,
                                  action        |-> "BUY",
                                  shares        |-> shares,
                                  price         |-> price,
                                  amount        |-> trade.amount,
                                  weekly_change |-> trade.weekly_change])]
                 ELSE st
        ELSE IF trade.signal = "SELL"
        THEN LET shares_to_sell == FDiv(trade.amount, price)
             IN  IF symbol \in DOMAIN st.pf.holdings
                 THEN LET actual_shares ==
                              Min(shares_to_sell, st.pf.holdings[symbol])
                          r == sell(st.pf, symbol, actual_shares, price)
                      IN  IF r.ret
                          THEN [pf  |-> r.pf,
                                log |-> Append(st.log,
                                  [date          |-> current_date,
                                   symbol        |-> symbol,
                                   action        |-> "SELL",
                                   shares        |-> actual_shares,
                                   price         |-> price,
                                   amount        |-> actual_shares * price,
                                   weekly_change |-> trade.weekly_change])]
                          ELSE st
                 ELSE st
        ELSE st

RECURSIVE ProcessTrades(_, _, _, _, _)
\* 'for symbol, trade in results['trades'].items()': the trades in the order
\* of keys.
ProcessTrades(st, keys, trades, current_prices, current_date) ==
    IF keys = << >> THEN st
    ELSE ProcessTrades(
             ProcessTrade(st, Head(keys), trades[Head(keys)],
                          current_prices, current_date),
             Tail(keys), trades, current_prices, current_date)

\* One pass of the while loop of Backtester.run up to 'i += 7', on
\* st = [pf, log], for the date all_dates[i].
StepBody(st, data, current_date) ==
    With(WindowData(data, current_date), LAMBDA window_data :
        IF DOMAIN window_data = {} THEN st
        ELSE
        With(algorithm_run(DefaultSelector, DefaultEngine, window_data),
             LAMBDA results :
        With(WindowPrices(window_data), LAMBDA current_prices :
        LET keys   == SelectSeq(results.suitable_stocks,
                                LAMBDA s : s \in DOMAIN results.trades)
            traded == With(ProcessTrades(st, keys, results.trades,
                                         current_prices, current_date),
                           LAMBDA x : x)
        IN  [pf  |-> record_state(traded.pf, current_date, current_prices),
             log |-> traded.log])))

\* The value of 'result' while run has not returned; kind is then one of
\* "None" (run returned None), "summary" (run returned the dict) and
\* "ZeroDivisionError" (run raised).
NoResult ==
    [kind |-> "pending", initial_value |-> 0, final_value |-> 0,
     total_return |-> NoRatio, total_return_pct |-> NoRatio,
     max_drawdown |-> NoRatio, total_trades |-> 0, buy_trades |-> 0,
     sell_trades |-> 0, portfolio_history |-> << >>, trade_log |-> << >>,
     final_holdings |-> EmptyDict]

ReturnNone == [NoResult EXCEPT !.kind = "None"]

Raise(error) == [NoResult EXCEPT !.kind = error]

RECURSIVE DrawdownLoop_FromInitialPeak(_, _, _, _)
\* The drawdown loop without 'max_value = max(max_value, ...)': the decline
\* is measured from the initial value.
DrawdownLoop_FromInitialPeak(history, k, max_value, max_drawdown) ==
    IF k > Len(history) THEN max_drawdown
    ELSE IF max_value = 0 THEN NoRatio
    ELSE With(Ratio(max_value - history[k].total_value, max_value),
              LAMBDA drawdown :
           With(IF RatioLeq(drawdown, max_drawdown)
                THEN max_drawdown ELSE drawdown,
                LAMBDA max_drawdown2 :
                  DrawdownLoop_FromInitialPeak(history, k + 1, max_value,
                                               max_drawdown2)))

RECURSIVE DrawdownLoop(_, _, _, _)
\* 'for state in self.portfolio.history' from record k on: the max_drawdown
\* at the end of the loop, NoRatio when a division by zero is met.
DrawdownLoop(history, k, max_value, max_drawdown) ==
    IF k > Len(history) THEN max_drawdown
    ELSE With(Max(max_value, history[k].total_value), LAMBDA max_value2 :
           IF max_value2 = 0 THEN NoRatio
           ELSE With(Ratio(max_value2 - history[k].total_value, max_value2),
                     LAMBDA drawdown :
                  With(IF RatioLeq(drawdown, max_drawdown)
                       THEN max_drawdown ELSE drawdown,
                       LAMBDA max_drawdown2 :
                         DrawdownLoop(history, k + 1, max_value2,
                                      max_drawdown2))))

\* 'if len(self.portfolio.history) <= 1': no snapshot after the first.
HistoryIsEmpty_NoProgress(history) == Len(history) <= 1

\* 'if not self.portfolio.history'
HistoryIsEmpty(history) == Len(history) = 0

\* _calculate_results without 'total_return_pct = total_return * 100'.
calculate_results_ReturnNotPercent(pf, log) ==
    IF Len(pf.history) = 0 THEN ReturnNone
    ELSE
    LET initial_value == pf.history[1].total_value
        final_value   == pf.history[Len(pf.history)].total_value
    IN  IF initial_value = 0 THEN Raise("ZeroDivisionError")
        ELSE
        LET total_return == Ratio((final_value - initial_value)
                                     * (IF initial_value < 0 THEN -1 ELSE 1),
                                  Abs(initial_value))
            max_drawdown == DrawdownLoop(pf.history, 1, initial_value,
                                         Ratio(0, 1))
            buy_trades  == SelectSeq(log, LAMBDA t : t.action = "BUY")
            sell_trades == SelectSeq(log, LAMBDA t : t.action = "SELL")
        IN  IF IsNone(max_drawdown) THEN Raise("ZeroDivisionError")
            ELSE
            [kind              |-> "summary",
             initial_value     |-> initial_value,
             final_value       |-> final_value,
             total_return      |-> total_return,
             total_return_pct  |-> total_return,
             max_drawdown      |-> max_drawdown,
             total_trades      |-> Len(log),
             buy_trades        |-> Len(buy_trades),
             sell_trades       |-> Len(sell_trades),
             portfolio_history |-> pf.history,
             trade_log         |-> log,
             final_holdings    |-> pf.holdings]

\* Backtester._calculate_results.  Every total_value is a Python float when
\* no position is held, so a zero initial_value makes
\* '(final_value - initial_value) / initial_value' raise ZeroDivisionError.
calculate_results(pf, log) ==
    IF HistoryIsEmpty(pf.history) THEN ReturnNone
    ELSE
    LET initial_value == pf.history[1].total_value
        final_value   == pf.history[Len(pf.history)].total_value
    IN  IF initial_value = 0 THEN Raise("ZeroDivisionError")
        ELSE
        LET total_return == Ratio((final_value - initial_value)
                                     * (IF initial_value < 0 THEN -1 ELSE 1),
                                  Abs(initial_value))
            max_drawdown == DrawdownLoop(pf.history, 1, initial_value,
                                         Ratio(0, 1))
            buy_trades  == SelectSeq(log, LAMBDA t : t.action = "BUY")
            sell_trades == SelectSeq(log, LAMBDA t : t.action = "SELL")
        IN  IF IsNone(max_drawdown) THEN Raise("ZeroDivisionError")
            ELSE
            [kind              |-> "summary",
             initial_value     |-> initial_value,
             final_value       |-> final_value,
             total_return      |-> total_return,
             total_return_pct  |-> Ratio(total_return.num * 100,
                                         total_return.den),
             max_drawdown      |-> max_drawdown,
             total_trades      |-> Len(log),
             buy_trades        |-> Len(buy_trades),
             sell_trades       |-> Len(sell_trades),
             portfolio_history |-> pf.history,
             trade_log         |-> log,
             final_holdings    |-> pf.holdings]

RECURSIVE WhileLoop(_, _, _, _, _, _)
\* 'while i < len(all_dates) and weeks_processed < self.weeks' as a function:
\* st = [pf, log] at the exit of the loop entered with st, k and n.
WhileLoop(st, data, all_dates, k, n, w) ==
    IF k < Len(all_dates) /\ n < w
    THEN With(StepBody(st, data, all_dates[k + 1]), LAMBDA st2 :
            WhileLoop(st2, data, all_dates, k + Stride, n + 1, w))
    ELSE st

\* Backtester.run as a function: the ledger and the trade log run leaves
\* and what it returns, for a Backtester with ledger pf, trade log log and
\* weeks w called on data.
run(pf, log, data, w) ==
    With(AllDates(data), LAMBDA all_dates :
        IF DOMAIN data = {} \/ InsufficientData(data, all_dates)
        THEN [pf |-> pf, log |-> log, result |-> ReturnNone]
        ELSE With(WhileLoop([pf  |-> record_state(pf, all_dates[1],
                                       StartPrices(data, all_dates[1])),
                             log |-> log],
                            data, all_dates, Stride, 0, w),
                  LAMBDA st :
                    [pf     |-> st.pf,
                     log    |-> st.log,
                     result |-> calculate_results(st.pf, st.log)]))

\* ------------------------------------------------------------- the inputs

\* The last date of the long series.
MaxDays == 43

\* The largest 'weeks' a Backtester is built with.
MaxWeeks == 6

\* The price of a series of the given shape on day d.  "dip" falls by more
\* than 5% over days 31..36 and then rises by more than 10% a week; "rally"
\* rises by more than 10% over days 31..36; "flat" never moves; "wave"
\* falls by more than 5% a week over days 31..43 and rises by more than 10%
\* over days 44..50.
ShapePrice(shape, d) ==
    LET zig == IF d % 2 = 1 THEN 100 ELSE 101
    IN  CASE shape = "flat"  -> 100
          [] shape = "dip"   -> IF d <= 30 THEN zig
                                ELSE IF d <= 36 THEN 131 - d
                                ELSE 96 + 2 * (d - 37)
          [] shape = "wave"  -> IF d <= 30 THEN zig
                                ELSE IF d <= 43 THEN 131 - d
                                ELSE 90 + 2 * (d - 44)
          [] shape = "rally" -> IF d <= 30 THEN zig
                                ELSE IF d <= 36 THEN 100 + 2 * (d - 30)
                                ELSE 112 - (d % 2)

\* The series of a shape over the days first..last.
SeriesOf(shape, first, last) ==
    [k \in 1..(last - first + 1) |->
        [t |-> first + k - 1, p |-> ShapePrice(shape, first + k - 1)]]

\* The series a symbol may come with, each named by its shape and its first
\* and last day: short ones, whose union may or may not reach 14 dates, and
\* long ones of each shape, from day 1 or from day 8.
SeriesChoices ==
    {[shape |-> "dip", first |-> 1, last |-> 7],
     [shape |-> "dip", first |-> 5, last |-> 13],
     [shape |-> "dip", first |-> 8, last |-> 14]}
      \cup {[shape |-> sh, first |-> f, last |-> MaxDays] :
                sh \in {"flat", "dip", "rally"}, f \in {1, 8}}

\* What the fetch returned: no symbol, one symbol or both.
FeedChoices ==
    {EmptyDict} \cup UNION {[D -> SeriesChoices] : D \in {{"A"}, {"A", "B"}}}

\* The stock_data handed to run: the series the feed names.
stock_data ==
    [s \in DOMAIN feed |->
        SeriesOf(feed[s].shape, feed[s].first, feed[s].last)]

\* initial_cash: nothing, less than one buy, one buy, many buys.
CashChoices == {0, 3000, 7000, 20000}

Init ==
    /\ feed \in FeedChoices
    /\ weeks \in {0, 1, MaxWeeks}
    /\ \E initial_cash \in CashChoices : portfolio = NewPortfolio(initial_cash)
    /\ trade_log = << >>
    /\ pc = "start"
    /\ i = 0
    /\ weeks_processed = 0
    /\ result = NoResult
    /\ call = NoCall
    /\ ncalls = 0
    /\ args = NoArgs
    /\ ret = NoRet
    /\ backtesters = << >>
    /\ objects = << >>

\* Backtester.run up to the while loop with 'i = 0' for 'i = 7': the first
\* step is taken at the start date.
RunStart_FromZero ==
    /\ pc = "start"
    /\ \E data \in {stock_data} : \E all_dates \in {AllDates(data)} :
         IF DOMAIN data = {} \/ InsufficientData(data, all_dates)
         THEN /\ result' = ReturnNone
              /\ pc' = "done"
              /\ UNCHANGED <<portfolio, i, weeks_processed>>
         ELSE LET start_date == all_dates[1]
              IN  /\ portfolio' = record_state(portfolio, start_date,
                                      StartPrices(data, start_date))
                  /\ weeks_processed' = 0
                  /\ i' = 0
                  /\ pc' = "loop"
                  /\ UNCHANGED result
    /\ UNCHANGED <<feed, weeks, trade_log, call, ncalls>>
    /\ UNCHANGED <<unitVars, outerVars>>

\* Backtester.run up to the while loop: the two early returns and the first
\* snapshot.
RunStart ==
    /\ pc = "start"
    /\ \E data \in {stock_data} : \E all_dates \in {AllDates(data)} :
         IF DOMAIN data = {} \/ InsufficientData(data, all_dates)
         THEN /\ result' = ReturnNone
              /\ pc' = "done"
              /\ UNCHANGED <<portfolio, i, weeks_processed>>
         ELSE LET start_date == all_dates[1]
              IN  /\ portfolio' = record_state(portfolio, start_date,
                                      StartPrices(data, start_date))
                  /\ weeks_processed' = 0
                  /\ i' = Stride
                  /\ pc' = "loop"
                  /\ UNCHANGED result
    /\ UNCHANGED <<feed, weeks, trade_log, call, ncalls>>
    /\ UNCHANGED <<unitVars, outerVars>>

\* One pass of 'while i < len(all_dates) and weeks_processed < self.weeks'.
RunStep ==
    /\ pc = "loop"
    /\ \E data \in {stock_data} : \E all_dates \in {AllDates(data)} :
         /\ i < Len(all_dates) /\ weeks_processed < weeks
         /\ \E st \in {StepBody([pf |-> portfolio, log |-> trade_log], data,
                                all_dates[i + 1])} :
                /\ portfolio' = st.pf
                /\ trade_log' = st.log
    /\ i' = i + Stride
    /\ weeks_processed' = weeks_processed + 1
    /\ UNCHANGED <<feed, weeks, pc, result, call, ncalls>>
    /\ UNCHANGED <<unitVars, outerVars>>

\* The exit of the while loop and 'return self._calculate_results()'.
RunFinish ==
    /\ pc = "loop"
    /\ ~(i < Len(AllDates(stock_data)) /\ weeks_processed < weeks)
    /\ result' = calculate_results(portfolio, trade_log)
    /\ pc' = "done"
    /\ UNCHANGED <<portfolio, feed, weeks, i, weeks_processed,
                   trade_log, call, ncalls>>
    /\ UNCHANGED <<unitVars, outerVars>>

Next == RunStart \/ RunStep \/ RunFinish

Spec == Init /\ [][Next]_vars

\* ------------------------------------------ the engine, called on its own

\* The longest series handed to the engine.
MaxLen == 8

\* The price of point k of a series of n points: the last point is 'last',
\* the points before it follow the pattern.  "ramp" has no two points alike.
PatternPrice(pattern, k) ==
    CASE pattern = "flat" -> 100
      [] pattern = "ramp" -> 100 + 2 * k
      [] pattern = "neg"  -> -100
      [] pattern = "zero" -> 0
      [] pattern = "eps"  -> PriceEps
      [] pattern = "nan"  -> NaN
      [] pattern = "inf"  -> Inf

\* A pd.Series of n daily points.
PatternSeries(n, pattern, last) ==
    [k \in 1..n |-> [t |-> k,
                     p |-> IF k = n THEN last ELSE PatternPrice(pattern, k)]]

Patterns == {"flat", "ramp", "neg", "zero", "eps", "nan", "inf"}

\* Latest prices: not finite, zero, at and just above 1e-10, and around the
\* levels the patterns hold.
LastPrices == {NaN, Inf, -Inf, 0, PriceEps, PriceEps + 1, -94,
               94, 95, 96, 100, 103, 109, 110, 112}

\* The series of the first symbol: every length, pattern and latest price.
EngineSeriesA ==
    {PatternSeries(n, pattern, last) :
        n \in 0..MaxLen, pattern \in Patterns, last \in LastPrices}

\* The series of the second symbol, when there is one: a fall, a rise, and
\* no move.
EngineSeriesB ==
    {PatternSeries(MaxLen, "flat", last) : last \in {94, 100, 112}}

EngineData ==
    {EmptyDict}
      \cup {[s \in {"A"} |-> a] : a \in EngineSeriesA}
      \cup {[s \in {"A", "B"} |-> IF s = "A" THEN a ELSE b] :
                a \in EngineSeriesA, b \in EngineSeriesB}

\* The engines: the default one, and one whose two thresholds are both 0,
\* so that a change of 0 meets both.
EngineChoices ==
    {DefaultEngine,
     [buy_threshold |-> 0, sell_threshold |-> 0,
      buy_amount |-> 3000, sell_amount |-> 7000]}

EngineInit ==
    /\ \E eng \in EngineChoices, data \in EngineData :
          args = [NoArgs EXCEPT !.eng = eng, !.data = data]
    /\ ret = NoRet
    /\ backtesters = << >>
    /\ objects = << >>
    /\ portfolio = NewPortfolio(0)
    /\ call = NoCall
    /\ ncalls = 0
    /\ feed = EmptyDict
    /\ weeks = 0
    /\ pc = "engine"
    /\ i = 0
    /\ weeks_processed = 0
    /\ trade_log = << >>
    /\ result = NoResult

ledgerVars == <<portfolio, call, ncalls>>

\* engine.calculate_weekly_change(stock_data[symbol])
CalculateWeeklyChange ==
    /\ pc = "engine"
    /\ \E symbol \in DOMAIN args.data :
          ret' = [NoRet EXCEPT
                    !.fn = "calculate_weekly_change", !.symbol = symbol,
                    !.change = calculate_weekly_change(
                                   PricesOf(args.data[symbol]))]
    /\ UNCHANGED <<args, ledgerVars, runVars, outerVars>>

\* engine.generate_signal(stock_data[symbol])
GenerateSignal ==
    /\ pc = "engine"
    /\ \E symbol \in DOMAIN args.data :
          ret' = [NoRet EXCEPT
                    !.fn = "generate_signal", !.symbol = symbol,
                    !.sig = generate_signal(args.eng,
                                            PricesOf(args.data[symbol]))]
    /\ UNCHANGED <<args, ledgerVars, runVars, outerVars>>

\* engine.execute_trades(stock_data)
ExecuteTrades ==
    /\ pc = "engine"
    /\ ret' = [NoRet EXCEPT
                 !.fn = "execute_trades",
                 !.trades = execute_trades(args.eng, Keys(args.data),
                                           args.data)]
    /\ UNCHANGED <<args, ledgerVars, runVars, outerVars>>

\* engine.get_trade_summary(trades), for the trades execute_trades returned.
GetTradeSummary ==
    /\ pc = "engine"
    /\ ret.fn = "execute_trades"
    /\ ret' = [ret EXCEPT !.fn = "get_trade_summary",
                          !.summary = get_trade_summary(ret.trades)]
    /\ UNCHANGED <<args, ledgerVars, runVars, outerVars>>

EngineNext ==
    CalculateWeeklyChange \/ GenerateSignal \/ ExecuteTrades \/ GetTradeSummary

EngineSpec == EngineInit /\ [][EngineNext]_vars

\* ---------------------------------------- the selector, called on its own

\* The longest of the short series handed to the selector.
MaxPoints == 6

\* min_data_points of the selectors built for the short series.
FewPoints == 5

\* The price of point k of a short series: "flat" never moves, "zig" goes
\* up and down by turns, "up" rises at every point.
TrendPrice(kind, k) ==
    CASE kind = "flat" -> 100
      [] kind = "zig"  -> IF k % 2 = 1 THEN 100 ELSE 101
      [] kind = "up"   -> 99 + k

TrendSeries(n, kind) == [k \in 1..n |-> [t |-> k, p |-> TrendPrice(kind, k)]]

\* The volatility of the series of FewPoints points of a kind.
VolatilityOf(kind) ==
    calculate_volatility(PricesOf(TrendSeries(FewPoints, kind)))

\* The series of the first symbol: the short ones of every length, and long
\* ones of 29, 30 and 31 points.
SelectorSeriesA ==
    {TrendSeries(n, kind) : n \in 0..MaxPoints, kind \in {"flat", "zig", "up"}}
      \cup {SeriesOf(shape, 1, last) :
                shape \in {"flat", "dip"},
                last \in {MinDataPoints - 1, MinDataPoints, MinDataPoints + 1}}

\* The series of the second symbol, when there is one.
SelectorSeriesB ==
    {TrendSeries(FewPoints - 1, "up"), TrendSeries(FewPoints, "up"),
     SeriesOf("dip", 1, MinDataPoints)}

SelectorData ==
    {EmptyDict}
      \cup {[s \in {"A"} |-> a] : a \in SelectorSeriesA}
      \cup {[s \in {"A", "B"} |-> IF s = "A" THEN a ELSE b] :
                a \in SelectorSeriesA, b \in SelectorSeriesB}

\* StockSelector(min_volatility, max_volatility, min_data_points)
Selector(lo, hi, n) ==
    [min_volatility |-> lo, max_volatility |-> hi, min_data_points |-> n]

\* The selectors: the default one; bands of a single point, at the
\* volatility of a series and at 0; bands with the volatility of a series at
\* the lower edge, at the upper edge, at the midpoint and half way between;
\* and a band whose edges are crossed.
SelectorChoices ==
    {DefaultSelector,
     Selector(VolatilityOf("zig"), VolatilityOf("zig"), FewPoints),
     Selector(0, 0, 0),
     Selector(VolatilityOf("up"), 4 * VolatilityOf("up"), FewPoints),
     Selector(0, VolatilityOf("up"), FewPoints),
     Selector(0, 2 * VolatilityOf("zig"), FewPoints),
     Selector(0, 4 * VolatilityOf("zig"), FewPoints),
     Selector(MaxVolatility, MinVolatility, FewPoints)}

SelectorInit ==
    /\ \E sel \in SelectorChoices, data \in SelectorData :
          args = [NoArgs EXCEPT !.sel = sel, !.data = data]
    /\ ret = NoRet
    /\ backtesters = << >>
    /\ objects = << >>
    /\ portfolio = NewPortfolio(0)
    /\ call = NoCall
    /\ ncalls = 0
    /\ feed = EmptyDict
    /\ weeks = 0
    /\ pc = "selector"
    /\ i = 0
    /\ weeks_processed = 0
    /\ trade_log = << >>
    /\ result = NoResult

\* selector.calculate_volatility(stock_data[symbol])
CalculateVolatility ==
    /\ pc = "selector"
    /\ \E symbol \in DOMAIN args.data :
          ret' = [NoRet EXCEPT
                    !.fn = "calculate_volatility", !.symbol = symbol,
                    !.volatility = calculate_volatility(
                                       PricesOf(args.data[symbol]))]
    /\ UNCHANGED <<args, ledgerVars, runVars, outerVars>>

\* selector.calculate_predictability_score(stock_data[symbol])
CalculatePredictabilityScore ==
    /\ pc = "selector"
    /\ \E symbol \in DOMAIN args.data :
          ret' = [NoRet EXCEPT
                    !.fn = "calculate_predictability_score",
                    !.symbol = symbol,
                    !.score = calculate_predictability_score(
                                  args.sel, PricesOf(args.data[symbol]))]
    /\ UNCHANGED <<args, ledgerVars, runVars, outerVars>>

\* selector.is_suitable(stock_data[symbol])
IsSuitable ==
    /\ pc = "selector"
    /\ \E symbol \in DOMAIN args.data :
          ret' = [NoRet EXCEPT
                    !.fn = "is_suitable", !.symbol = symbol,
                    !.suitable = is_suitable(args.sel,
                                             PricesOf(args.data[symbol]))]
    /\ UNCHANGED <<args, ledgerVars, runVars, outerVars>>

\* selector.filter_stocks(stock_data)
FilterStocks ==
    /\ pc = "selector"
    /\ ret' = [NoRet EXCEPT !.fn = "filter_stocks",
                            !.universe = filter_stocks(args.sel, args.data)]
    /\ UNCHANGED <<args, ledgerVars, runVars, outerVars>>

SelectorNext ==
    CalculateVolatility \/ CalculatePredictabilityScore \/ IsSuitable
      \/ FilterStocks

SelectorSpec == SelectorInit /\ [][SelectorNext]_vars

\* ------------------------------------ results over a history of snapshots

\* The longest history the results are computed over.
MaxSnapshots == 4

\* The largest price, and so the largest total_value, of a snapshot.
MaxValue == 3

\* A ledger that holds one share of "A" and no cash: its total_value is the
\* price of "A".
DrawdownInit ==
    /\ portfolio = buy(NewPortfolio(1), "A", 1, 1).pf
    /\ result = NoResult
    /\ call = NoCall
    /\ ncalls = 0
    /\ feed = EmptyDict
    /\ weeks = 0
    /\ pc = "history"
    /\ i = 0
    /\ weeks_processed = 0
    /\ trade_log = << >>
    /\ args = NoArgs
    /\ ret = NoRet
    /\ backtesters = << >>
    /\ objects = << >>

\* portfolio.record_state(date, {'A': price})
TakeSnapshot ==
    /\ pc = "history"
    /\ Len(portfolio.history) < MaxSnapshots
    /\ \E price \in 1..MaxValue :
          portfolio' = record_state(portfolio, Len(portfolio.history),
                                    [s \in {"A"} |-> price])
    /\ UNCHANGED <<call, ncalls, runVars, unitVars, outerVars>>

\* self._calculate_results()
CalculateResults ==
    /\ pc = "history"
    /\ result' = calculate_results(portfolio, trade_log)
    /\ UNCHANGED <<ledgerVars, feed, weeks, pc, i, weeks_processed,
                   trade_log, unitVars, outerVars>>

DrawdownNext == TakeSnapshot \/ CalculateResults

DrawdownSpec == DrawdownInit /\ [][DrawdownNext]_vars

\* ------------------------------------------- run, on series that trade

\* The last date of the series of the driver's inputs, long enough for three
\* steps on 30 points or more.
LongDays == 50

\* The largest 'weeks' of the driver's inputs: more than the steps there are.
LongWeeks == 8

\* The series a symbol may come with: a wave over all the days, one that
\* ends three days early, one that starts nine days late, and a rally.
DriverSeries ==
    {[shape |-> "wave",  first |-> 1,  last |-> LongDays],
     [shape |-> "wave",  first |-> 1,  last |-> LongDays - 3],
     [shape |-> "wave",  first |-> 10, last |-> LongDays],
     [shape |-> "rally", first |-> 1,  last |-> LongDays]}

\* What the fetch returned: one symbol or both.
DriverFeeds == UNION {[D -> DriverSeries] : D \in {{"A"}, {"A", "B"}}}

\* weeks: no step, not all the steps, more than all the steps.
DriverWeeks == {0, LongWeeks - 2, LongWeeks}

\* initial_cash: less than one buy, one buy, three buys.
DriverCash == {3000, 7000, 20000}

\* A Backtester built on the driver's inputs, before run.
DriverInit ==
    /\ feed \in DriverFeeds
    /\ weeks \in DriverWeeks
    /\ \E initial_cash \in DriverCash : portfolio = NewPortfolio(initial_cash)
    /\ trade_log = << >>
    /\ pc = "start"
    /\ i = 0
    /\ weeks_processed = 0
    /\ result = NoResult
    /\ call = NoCall
    /\ ncalls = 0
    /\ args = NoArgs
    /\ ret = NoRet
    /\ backtesters = << >>
    /\ objects = << >>

DriverSpec == DriverInit /\ [][Next]_vars

\* ------------------------------------------- run called a second time

\* A Backtester on the driver's inputs whose run is called twice; ncalls
\* counts the calls of run that have returned and ret keeps what the call
\* before the current one returned.
RerunInit ==
    /\ feed \in DriverFeeds
    /\ weeks \in DriverWeeks
    /\ \E initial_cash \in DriverCash : portfolio = NewPortfolio(initial_cash)
    /\ trade_log = << >>
    /\ pc = "start"
    /\ i = 0
    /\ weeks_processed = 0
    /\ result = NoResult
    /\ call = NoCall
    /\ ncalls = 0
    /\ args = NoArgs
    /\ ret = NoResult
    /\ backtesters = << >>
    /\ objects = << >>

\* The second call of run on a Backtester rebuilt by __init__: a new ledger
\* with the cash of the first and an empty trade log.
RunAgain_Reset ==
    /\ pc = "done"
    /\ ncalls = 0
    /\ ncalls' = 1
    /\ ret' = result
    /\ result' = NoResult
    /\ pc' = "start"
    /\ portfolio' = NewPortfolio(portfolio.history[1].cash)
    /\ trade_log' = << >>
    /\ UNCHANGED <<feed, weeks, i, weeks_processed, call, args, outerVars>>

\* The second call of run on the same Backtester, with the same data: run
\* assigns neither self.portfolio nor self.trade_log before it uses them.
RunAgain ==
    /\ pc = "done"
    /\ ncalls = 0
    /\ ncalls' = 1
    /\ ret' = result
    /\ result' = NoResult
    /\ pc' = "start"
    /\ UNCHANGED <<portfolio, trade_log, feed, weeks, i, weeks_processed,
                   call, args, outerVars>>

RerunNext == RunStart \/ RunStep \/ RunFinish \/ RunAgain

RerunSpec == RerunInit /\ [][RerunNext]_vars

\* ------------------------------------ two Backtesters running side by side

\* The instance whose Portfolio and trade log every instance uses when the
\* two are attributes of the class: the first one.
OwnerOf_ClassLevel(b) == 1

\* The instance whose Portfolio and trade log instance b uses: the objects
\* its own __init__ built ('self.portfolio = Portfolio(initial_cash)',
\* 'self.trade_log = []').
OwnerOf(b) == b

\* Backtester(symbols, w, initial_cash), before run.
NewBacktester(w, initial_cash) ==
    [weeks           |-> w,
     initial_cash    |-> initial_cash,
     portfolio       |-> NewPortfolio(initial_cash),
     trade_log       |-> << >>,
     pc              |-> "start",
     i               |-> 0,
     weeks_processed |-> 0,
     result          |-> NoResult]

\* The stock_data both runs are given: one wave or two.
ConcurrentFeeds ==
    {[s \in D |-> [shape |-> "wave", first |-> 1, last |-> LongDays]] :
        D \in {{"A"}, {"A", "B"}}}

\* Two Backtesters, the second with fewer weeks or less cash than the first
\* or with the same.
ConcurrentInit ==
    /\ feed \in ConcurrentFeeds
    /\ \E w \in {LongWeeks - 2, LongWeeks} : \E c \in {7000, 20000} :
          backtesters = <<NewBacktester(LongWeeks, 20000),
                          NewBacktester(w, c)>>
    /\ objects = << >>
    /\ portfolio = NewPortfolio(0)
    /\ trade_log = << >>
    /\ weeks = 0
    /\ pc = "concurrent"
    /\ i = 0
    /\ weeks_processed = 0
    /\ result = NoResult
    /\ call = NoCall
    /\ ncalls = 0
    /\ args = NoArgs
    /\ ret = NoRet

\* Backtester.run of instance b up to the while loop.
BacktesterStart(b) ==
    /\ backtesters[b].pc = "start"
    /\ \E data \in {stock_data} : \E all_dates \in {AllDates(data)} :
         IF DOMAIN data = {} \/ InsufficientData(data, all_dates)
         THEN backtesters' = [backtesters EXCEPT ![b].result = ReturnNone,
                                                 ![b].pc = "done"]
         ELSE backtesters' =
                [backtesters EXCEPT
                    ![OwnerOf(b)].portfolio =
                        record_state(@, all_dates[1],
                                     StartPrices(data, all_dates[1])),
                    ![b].weeks_processed = 0,
                    ![b].i = Stride,
                    ![b].pc = "loop"]
    /\ UNCHANGED <<ledgerVars, runVars, unitVars, objects>>

\* One pass of the while loop of instance b.
BacktesterStep(b) ==
    /\ backtesters[b].pc = "loop"
    /\ \E data \in {stock_data} : \E all_dates \in {AllDates(data)} :
         /\ backtesters[b].i < Len(all_dates)
         /\ backtesters[b].weeks_processed < backtesters[b].weeks
         /\ \E st \in {StepBody(
                          [pf  |-> backtesters[OwnerOf(b)].portfolio,
                           log |-> backtesters[OwnerOf(b)].trade_log],
                          data, all_dates[backtesters[b].i + 1])} :
                backtesters' =
                    [backtesters EXCEPT
                        ![OwnerOf(b)].portfolio = st.pf,
                        ![OwnerOf(b)].trade_log = st.log,
                        ![b].i = @ + Stride,
                        ![b].weeks_processed = @ + 1]
    /\ UNCHANGED <<ledgerVars, runVars, unitVars, objects>>

\* The exit of the while loop of instance b and its return.
BacktesterFinish(b) ==
    /\ backtesters[b].pc = "loop"
    /\ ~(/\ backtesters[b].i < Len(AllDates(stock_data))
         /\ backtesters[b].weeks_processed < backtesters[b].weeks)
    /\ backtesters' =
          [backtesters EXCEPT
              ![b].result =
                  calculate_results(backtesters[OwnerOf(b)].portfolio,
                                    backtesters[OwnerOf(b)].trade_log),
              ![b].pc = "done"]
    /\ UNCHANGED <<ledgerVars, runVars, unitVars, objects>>

\* The steps of the two runs in any order.
ConcurrentNext ==
    \E b \in 1..2 :
        BacktesterStart(b) \/ BacktesterStep(b) \/ BacktesterFinish(b)

ConcurrentSpec == ConcurrentInit /\ [][ConcurrentNext]_vars

\* ------------------------------------------------ run_backtest and the view

\* The defaults of the fields of TradingAlgorithm, in the units of the
\* engine and the selector: -0.05 and 0.10 in basis points, 5.0 and 10.0 in
\* cash quanta of 0.001, 0.01 and 0.5 in basis points, 30 points.
DefaultAlgorithm ==
    [buy_threshold   |-> -500,
     sell_threshold  |-> 1000,
     buy_amount      |-> 5000,
     sell_amount     |-> 10000,
     min_volatility  |-> 100,
     max_volatility  |-> 5000,
     min_data_points |-> 30]

\* TradingAlgorithm.get_selector_config
get_selector_config(algorithm) ==
    [min_volatility  |-> algorithm.min_volatility,
     max_volatility  |-> algorithm.max_volatility,
     min_data_points |-> algorithm.min_data_points]

\* get_trading_config with the two amounts exchanged.
get_trading_config_Swapped(algorithm) ==
    [buy_threshold  |-> algorithm.buy_threshold,
     sell_threshold |-> algorithm.sell_threshold,
     buy_amount     |-> algorithm.sell_amount,
     sell_amount    |-> algorithm.buy_amount]

\* TradingAlgorithm.get_trading_config
get_trading_config(algorithm) ==
    [buy_threshold  |-> algorithm.buy_threshold,
     sell_threshold |-> algorithm.sell_threshold,
     buy_amount     |-> algorithm.buy_amount,
     sell_amount    |-> algorithm.sell_amount]

\* current_date.isoformat(): the date as text, which is not a date.
isoformat(date) == <<"iso", date>>

\* json.dumps(value, default=str): the value as JSON text.
dumps(value) == <<"json", value>>

\* The body of 'for symbol, trade in results['trades'].items()' of
\* run_backtest for one symbol, on st = [pf, log]: the entry has the date as
\* text; float(price) and float(weekly_change) are the floats themselves.
RunnerProcessTrade(st, symbol, trade, current_prices, current_date) ==
    IF symbol \notin DOMAIN current_prices THEN st
    ELSE
    LET price == current_prices[symbol]
    IN  IF trade.signal = "BUY"
        THEN LET shares == FDiv(trade.amount, price)
                 r      == buy(st.pf, symbol, shares, price)
             IN  IF r.ret
                 THEN [pf  |-> r.pf,
                       log |-> Append(st.log,
                                 [date          |-> isoformat(current_date),
                                  symbol        |-> symbol,
                                  action        |-> "BUY",
                                  shares        |-> shares,
                                  price         |-> price,
                                  amount        |-> trade.amount,
                                  weekly_change |-> trade.weekly_change])]
                 ELSE st
        ELSE IF trade.signal = "SELL"
        THEN LET shares_to_sell == FDiv(trade.amount, price)
             IN  IF symbol \in DOMAIN st.pf.holdings
                 THEN LET actual_shares ==
                              Min(shares_to_sell, st.pf.holdings[symbol])
                          r == sell(st.pf, symbol, actual_shares, price)
                      IN  IF r.ret
                          THEN [pf  |-> r.pf,
                                log |-> Append(st.log,
                                  [date          |-> isoformat(current_date),
                                   symbol        |-> symbol,
                                   action        |-> "SELL",
                                   shares        |-> actual_shares,
                                   price         |-> price,
                                   amount        |-> actual_shares * price,
                                   weekly_change |-> trade.weekly_change])]
                          ELSE st
                 ELSE st
        ELSE st

RECURSIVE RunnerProcessTrades(_, _, _, _, _)
\* 'for symbol, trade in results['trades'].items()' of run_backtest.
RunnerProcessTrades(st, keys, trades, current_prices, current_date) ==
    IF keys = << >> THEN st
    ELSE RunnerProcessTrades(
             RunnerProcessTrade(st, Head(keys), trades[Head(keys)],
                                current_prices, current_date),
             Tail(keys), trades, current_prices, current_date)

\* One pass of the while loop of run_backtest up to 'i += 7', with the
\* algorithm built from the configurations of the TradingAlgorithm.
RunnerStepBody(algorithm, st, data, current_date) ==
    With(WindowData(data, current_date), LAMBDA window_data :
        IF DOMAIN window_data = {} THEN st
        ELSE
        With(algorithm_run(get_selector_config(algorithm),
                           get_trading_config(algorithm), window_data),
             LAMBDA results :
        With(WindowPrices(window_data), LAMBDA current_prices :
        LET keys   == SelectSeq(results.suitable_stocks,
                                LAMBDA s : s \in DOMAIN results.trades)
            traded == With(RunnerProcessTrades(st, keys, results.trades,
                                               current_prices, current_date),
                           LAMBDA x : x)
        IN  [pf  |-> record_state(traded.pf, current_date, current_prices),
             log |-> traded.log])))

RECURSIVE RunnerLoop(_, _, _, _, _, _, _)
\* 'while i < len(all_dates) and weeks_processed < weeks' of run_backtest.
RunnerLoop(algorithm, st, data, all_dates, k, n, w) ==
    IF k < Len(all_dates) /\ n < w
    THEN With(RunnerStepBody(algorithm, st, data, all_dates[k + 1]),
              LAMBDA st2 :
                RunnerLoop(algorithm, st2, data, all_dates, k + Stride,
                           n + 1, w))
    ELSE st

RECURSIVE RunnerDrawdownLoop(_, _, _, _)
\* 'for state in portfolio.history' of run_backtest: the max_drawdown at the
\* end of the loop, NoRatio when a division by zero is met.
RunnerDrawdownLoop(history, k, max_value, max_drawdown) ==
    IF k > Len(history) THEN max_drawdown
    ELSE With(Max(max_value, history[k].total_value), LAMBDA max_value2 :
           IF max_value2 = 0 THEN NoRatio
           ELSE With(Ratio(max_value2 - history[k].total_value, max_value2),
                     LAMBDA drawdown :
                  With(IF RatioLeq(drawdown, max_drawdown)
                       THEN max_drawdown ELSE drawdown,
                       LAMBDA max_drawdown2 :
                         RunnerDrawdownLoop(history, k + 1, max_value2,
                                            max_drawdown2))))

\* BacktestResult.objects.create(algorithm, symbols, weeks, initial_cash):
\* the result fields are null (has_results is false).
NewBacktestResult(algorithm, w, initial_cash) ==
    [algorithm         |-> algorithm,
     weeks             |-> w,
     initial_cash      |-> initial_cash,
     has_results       |-> FALSE,
     final_value       |-> 0,
     total_return_pct  |-> NoRatio,
     max_drawdown_pct  |-> NoRatio,
     total_trades      |-> 0,
     buy_trades        |-> 0,
     sell_trades       |-> 0,
     trade_log         |-> dumps(<< >>),
     portfolio_history |-> dumps(<< >>),
     final_holdings    |-> dumps(EmptyDict)]

\* What run_backtest returned and the error its except clause printed.
Returned(ok, error) == [ok |-> ok, error |-> error]

\* run_backtest has not been called.
NoOutcome == Returned(FALSE, "pending")

\* run_backtest(backtest_result) when fetch_live_data returns data and
\* backtest_result.save() succeeds or not: what it returns, the record as
\* saved, and the ledger and the trade log it built (a new ledger when it
\* returned before building one).
run_backtest(backtest_result, data, save_ok) ==
    LET algorithm == backtest_result.algorithm
        w         == backtest_result.weeks
        fresh     == NewPortfolio(backtest_result.initial_cash)
        failed(error, pf, log) ==
            [ret |-> Returned(FALSE, error), saved |-> backtest_result,
             pf |-> pf, log |-> log]
    IN  IF DOMAIN data = {} THEN failed("none", fresh, << >>)
        ELSE
        With(AllDates(data), LAMBDA all_dates :
        IF Len(all_dates) < MinDates THEN failed("none", fresh, << >>)
        ELSE
        With(RunnerLoop(algorithm,
                        [pf  |-> record_state(fresh, all_dates[1],
                                     StartPrices(data, all_dates[1])),
                         log |-> << >>],
                        data, all_dates, Stride, 0, w),
             LAMBDA st :
        IF Len(st.pf.history) = 0 THEN failed("none", st.pf, st.log)
        ELSE
        LET initial_value == st.pf.history[1].total_value
            final_value   == st.pf.history[Len(st.pf.history)].total_value
        IN  IF initial_value = 0
            THEN failed("ZeroDivisionError", st.pf, st.log)
            ELSE
            LET total_return == Ratio((final_value - initial_value)
                                         * (IF initial_value < 0 THEN -1
                                            ELSE 1),
                                      Abs(initial_value))
                max_drawdown == RunnerDrawdownLoop(st.pf.history, 1,
                                                   initial_value, Ratio(0, 1))
                buy_trades  == SelectSeq(st.log, LAMBDA t : t.action = "BUY")
                sell_trades == SelectSeq(st.log, LAMBDA t : t.action = "SELL")
            IN  IF IsNone(max_drawdown)
                THEN failed("ZeroDivisionError", st.pf, st.log)
                ELSE IF ~save_ok THEN failed("save failed", st.pf, st.log)
                ELSE
                [ret   |-> Returned(TRUE, "none"),
                 saved |->
                   [backtest_result EXCEPT
                      !.has_results = TRUE,
                      !.final_value = final_value,
                      !.total_return_pct = Ratio(total_return.num * 100,
                                                 total_return.den),
                      !.max_drawdown_pct = Ratio(max_drawdown.num * 100,
                                                 max_drawdown.den),
                      !.total_trades = Len(st.log),
                      !.buy_trades = Len(buy_trades),
                      !.sell_trades = Len(sell_trades),
                      !.trade_log = dumps(st.log),
                      !.portfolio_history = dumps(st.pf.history),
                      !.final_holdings = dumps(st.pf.holdings)],
                 pf    |-> st.pf,
                 log   |-> st.log]))

\* What the fetch of run_backtest returned: nothing, 13 dates, one wave, two
\* waves, a wave and a rally.
RunnerFeeds ==
    {EmptyDict,
     [s \in {"A"} |-> [shape |-> "wave", first |-> 1, last |-> MinDates - 1]],
     [s \in {"A"} |-> [shape |-> "wave", first |-> 1, last |-> LongDays]],
     [s \in {"A", "B"} |->
         [shape |-> "wave", first |-> 1, last |-> LongDays]],
     [s \in {"A", "B"} |->
         [shape |-> IF s = "A" THEN "wave" ELSE "rally",
          first |-> 1, last |-> LongDays]]}

\* The weeks and the initial_cash of a BacktestResult.
RunnerInputs ==
    [weeks : {0, LongWeeks - 2, LongWeeks},
     initial_cash : {0, 3000, 7000, 20000}]

\* A stored BacktestResult with the default algorithm, before run_backtest;
\* args keeps the weeks and the initial_cash it was created with.
RunnerInit ==
    /\ feed \in RunnerFeeds
    /\ args \in RunnerInputs
    /\ objects = <<NewBacktestResult(DefaultAlgorithm, args.weeks,
                                     args.initial_cash)>>
    /\ ret = NoOutcome
    /\ pc = "created"
    /\ portfolio = NewPortfolio(args.initial_cash)
    /\ trade_log = << >>
    /\ weeks = args.weeks
    /\ i = 0
    /\ weeks_processed = 0
    /\ result = NoResult
    /\ call = NoCall
    /\ ncalls = 0
    /\ backtesters = << >>

\* run_backtest(backtest_result) on the stored record 1; a failed save
\* leaves the stored record as it was.
RunBacktest ==
    /\ pc = "created"
    /\ \E save_ok \in BOOLEAN :
         \E r \in {run_backtest(objects[1], stock_data, save_ok)} :
            /\ ret' = r.ret
            /\ objects' = [objects EXCEPT ![1] = r.saved]
            /\ portfolio' = r.pf
            /\ trade_log' = r.log
    /\ pc' = "returned"
    /\ UNCHANGED <<feed, weeks, i, weeks_processed, result, call, ncalls,
                   args, backtesters>>

RunnerSpec == RunnerInit /\ [][RunBacktest]_vars

\* forms.IntegerField(min_value=1, max_value=260)
MinFormWeeks == 1

MaxFormWeeks == 260

\* forms.FloatField(min_value=100.0), in cash quanta of 0.001.
MinFormCash == 100000

\* form.is_valid() for the weeks and the initial_cash of the form.
FormIsValid(form) ==
    /\ form.weeks >= MinFormWeeks /\ form.weeks <= MaxFormWeeks
    /\ form.initial_cash >= MinFormCash

\* The posted forms: weeks and initial_cash, valid or not.
FormChoices ==
    [weeks : {0, 1, LongWeeks - 2, LongWeeks},
     initial_cash : {0, MinFormCash, 2 * MinFormCash}]

\* The objects without the one of key pk.
Delete(objs, pk) == [k \in DOMAIN objs \ {pk} |-> objs[k]]

\* A request posted to BacktestCreateView with an empty store.
ViewInit ==
    /\ feed \in RunnerFeeds
    /\ args \in FormChoices
    /\ objects = << >>
    /\ ret = NoOutcome
    /\ pc = "post"
    /\ portfolio = NewPortfolio(args.initial_cash)
    /\ trade_log = << >>
    /\ weeks = args.weeks
    /\ i = 0
    /\ weeks_processed = 0
    /\ result = NoResult
    /\ call = NoCall
    /\ ncalls = 0
    /\ backtesters = << >>

\* BacktestCreateView.post without 'backtest.delete()'.
Post_KeepsFailed ==
    /\ pc = "post"
    /\ IF FormIsValid(args)
       THEN \E save_ok \in BOOLEAN :
              \E created \in {Append(objects,
                                     NewBacktestResult(DefaultAlgorithm,
                                         args.weeks, args.initial_cash))} :
              \E r \in {run_backtest(created[Len(created)], stock_data,
                                      save_ok)} :
                 /\ ret' = r.ret
                 /\ portfolio' = r.pf
                 /\ trade_log' = r.log
                 /\ objects' = [created EXCEPT ![Len(created)] = r.saved]
                 /\ pc' = IF r.ret.ok THEN "redirected" ELSE "rendered"
       ELSE /\ pc' = "rendered"
            /\ UNCHANGED <<objects, ret, portfolio, trade_log>>
    /\ UNCHANGED <<feed, weeks, i, weeks_processed, result, call, ncalls,
                   args, backtesters>>

\* BacktestCreateView.post: the record is created, run_backtest is called
\* on it, and the record is deleted unless run_backtest returned True.
\* run_backtest catches every Exception itself, so the except clause of the
\* view has nothing to catch.
Post ==
    /\ pc = "post"
    /\ IF FormIsValid(args)
       THEN \E save_ok \in BOOLEAN :
              \E created \in {Append(objects,
                                     NewBacktestResult(DefaultAlgorithm,
                                         args.weeks, args.initial_cash))} :
              \E r \in {run_backtest(created[Len(created)], stock_data,
                                      save_ok)} :
                 /\ ret' = r.ret
                 /\ portfolio' = r.pf
                 /\ trade_log' = r.log
                 /\ objects' = IF r.ret.ok
                               THEN [created EXCEPT ![Len(created)] = r.saved]
                               ELSE Delete(created, Len(created))
                 /\ pc' = IF r.ret.ok THEN "redirected" ELSE "rendered"
       ELSE /\ pc' = "rendered"
            /\ UNCHANGED <<objects, ret, portfolio, trade_log>>
    /\ UNCHANGED <<feed, weeks, i, weeks_processed, result, call, ncalls,
                   args, backtesters>>

ViewSpec == ViewInit /\ [][Post]_vars

\* ------------------------------------------------------ claims on the ledger

\* The balance of symbol s in mapping h, 0 when s is not stored.
Balance(h, s) == Get(h, s, 0)

\* Mapping h2 is h1 except at symbol s.
SameExceptAt(h1, h2, s) ==
    \A o \in Symbols \ {s} :
        /\ (o \in DOMAIN h1) = (o \in DOMAIN h2)
        /\ o \in DOMAIN h1 => h1[o] = h2[o]

\* C1: buy returns true exactly when shares * price <= cash; a successful buy
\* takes shares * price from cash and adds shares to the symbol's balance,
\* creating the entry, and touches no other symbol; a failed buy changes
\* neither cash nor holdings.
C1_BuyContract ==
    [][call'.op = "buy" =>
        LET s    == call'.symbol
            cost == call'.shares * call'.price
        IN  /\ call'.ok = (cost <= portfolio.cash)
            /\ call'.ok =>
                 /\ portfolio'.cash = portfolio.cash - cost
                 /\ s \in DOMAIN portfolio'.holdings
                 /\ portfolio'.holdings[s]
                      = Balance(portfolio.holdings, s) + call'.shares
                 /\ SameExceptAt(portfolio.holdings, portfolio'.holdings, s)
            /\ ~call'.ok =>
                 /\ portfolio'.cash = portfolio.cash
                 /\ portfolio'.holdings = portfolio.holdings]_vars

\* C1 witness: a buy that created an entry after a buy that was refused.
C1_Witness ==
    /\ call.op = "buy" /\ call.ok /\ call.shares > 0
    /\ call.symbol \notin DOMAIN call.pre.holdings
    /\ portfolio.cash < call.pre.cash
    /\ ncalls >= 2

\* C2: sell returns true exactly when the symbol is held with a balance of at
\* least shares; a successful sell adds shares * price to cash and takes
\* shares from the balance, and the entry is removed when what is left is
\* below 1e-10; a failed sell changes neither cash nor holdings.
C2_SellContract ==
    [][call'.op = "sell" =>
        LET s    == call'.symbol
            held == s \in DOMAIN portfolio.holdings
            left == portfolio.holdings[s] - call'.shares
        IN  /\ call'.ok = (held /\ portfolio.holdings[s] >= call'.shares)
            /\ call'.ok =>
                 /\ portfolio'.cash = portfolio.cash + call'.shares * call'.price
                 /\ IF left < DustEps
                    THEN s \notin DOMAIN portfolio'.holdings
                    ELSE /\ s \in DOMAIN portfolio'.holdings
                         /\ portfolio'.holdings[s] = left
                 /\ SameExceptAt(portfolio.holdings, portfolio'.holdings, s)
            /\ ~call'.ok =>
                 /\ portfolio'.cash = portfolio.cash
                 /\ portfolio'.holdings = portfolio.holdings]_vars

\* C2 witness: a sell that left a positive balance below 1e-10 and removed
\* the entry.
C2_Witness ==
    /\ call.op = "sell" /\ call.ok
    /\ call.pre.holdings[call.symbol] - call.shares \in 1..(DustEps - 1)
    /\ call.symbol \notin DOMAIN portfolio.holdings

\* C3: after any sequence of buy and sell calls with non-negative shares and
\* prices, cash >= 0 and every stored balance is strictly greater than 0.
C3_CashAndHoldingsPositive ==
    /\ portfolio.cash >= 0
    /\ \A s \in DOMAIN portfolio.holdings : portfolio.holdings[s] > 0

\* C4 as stated: a successful buy or sell of a symbol at a price leaves
\* get_value unchanged under every price map that gives the symbol that price.
C4_ValueUnchanged ==
    [][(call'.op \in {"buy", "sell"} /\ call'.ok) =>
        \A P \in PriceMaps :
            (call'.symbol \in DOMAIN P /\ P[call'.symbol] = call'.price) =>
                get_value(portfolio', P) = get_value(portfolio, P)]_vars

\* What a successful sell drops from the books: the balance left when it is
\* below 1e-10, which is removed with the entry.
DroppedBySell(pf, symbol, shares) ==
    LET left == pf.holdings[symbol] - shares
    IN  IF left < DustEps THEN left ELSE 0

\* C4 amended: a successful buy leaves get_value unchanged; a successful sell
\* lowers it by exactly (balance left) * price when the balance left is below
\* 1e-10 and the entry is removed, and leaves it unchanged otherwise.
C4_ValueUnchangedUpToDust ==
    [][(call'.op \in {"buy", "sell"} /\ call'.ok) =>
        \A P \in PriceMaps :
            (call'.symbol \in DOMAIN P /\ P[call'.symbol] = call'.price) =>
                get_value(portfolio', P) =
                    get_value(portfolio, P)
                      - (IF call'.op = "sell"
                         THEN DroppedBySell(portfolio, call'.symbol, call'.shares)
                                * call'.price
                         ELSE 0)]_vars

\* C4 witness: a sell at a positive price that removed a positive balance
\* below 1e-10, while another symbol is held.
C4_Witness ==
    /\ call.op = "sell" /\ call.ok /\ call.price > 0
    /\ DroppedBySell(call.pre, call.symbol, call.shares) > 0
    /\ portfolio.holdings # EmptyDict

\* Two mappings agree up to the tolerance 1e-9 on every symbol.
CloseHoldings(h1, h2) ==
    \A s \in Symbols :
        /\ Balance(h1, s) - Balance(h2, s) <= Tolerance
        /\ Balance(h2, s) - Balance(h1, s) <= Tolerance

\* The call made now repeats the arguments of the call made before.
SameArguments(c1, c2) ==
    /\ c1.symbol = c2.symbol
    /\ c1.shares = c2.shares
    /\ c1.price = c2.price

RECURSIVE HeldValue(_, _, _)
\* The value of the balances of holdings h of the symbols in S at the prices
\* P, a symbol without a price counting 0.
HeldValue(S, h, P) ==
    IF S = {} THEN 0
    ELSE LET s == CHOOSE x \in S : TRUE
         IN  (IF s \in DOMAIN h /\ s \in DOMAIN P THEN h[s] * P[s] ELSE 0)
               + HeldValue(S \ {s}, h, P)

\* C6: get_value returns cash plus the sum over the held symbols of shares
\* times the symbol's price, a held symbol without a price counting 0, and
\* changes nothing of the ledger.
C6_GetValue ==
    [][call'.op = "get_value" =>
        /\ call'.value = portfolio.cash
                         + HeldValue(Symbols, portfolio.holdings, call'.prices)
        /\ portfolio' = portfolio]_vars

\* C6 witness: get_value on a ledger holding two symbols, one of them without
\* a price.
C6_Witness ==
    /\ call.op = "get_value"
    /\ DOMAIN portfolio.holdings = Symbols
    /\ \E s \in Symbols : s \notin DOMAIN call.prices /\ portfolio.holdings[s] > 0
    /\ \E s \in Symbols : s \in DOMAIN call.prices /\ portfolio.holdings[s] > 0

\* C7: record_state appends one record with total_value = get_value(prices)
\* and holdings_value = total_value - cash and leaves cash and holdings
\* unchanged; no call changes what a record already in history shows.
C7_SnapshotFrozen ==
    [][/\ call'.op = "record_state" =>
            LET n == Len(portfolio'.history)
            IN  /\ n = Len(portfolio.history) + 1
                /\ portfolio'.cash = portfolio.cash
                /\ portfolio'.holdings = portfolio.holdings
                /\ ReadSnapshot(portfolio', n) =
                     [date           |-> portfolio'.history[n].date,
                      cash           |-> portfolio.cash,
                      holdings_value |-> get_value(portfolio, call'.prices)
                                           - portfolio.cash,
                      total_value    |-> get_value(portfolio, call'.prices),
                      holdings       |-> portfolio.holdings]
       /\ \A k \in 1..Len(portfolio.history) :
            /\ k <= Len(portfolio'.history)
            /\ ReadSnapshot(portfolio', k) = ReadSnapshot(portfolio, k)]_vars

\* C7 witness: a buy or sell changed the holdings after a snapshot of them
\* was recorded.
C7_Witness ==
    /\ call.op \in {"buy", "sell"} /\ call.ok
    /\ Len(portfolio.history) >= 1
    /\ ReadSnapshot(portfolio, 1).holdings # portfolio.holdings
    /\ ReadSnapshot(portfolio, 1).holdings # EmptyDict

\* --------------------------------------------------------- claims on run

\* The distinct timestamps of the input: the days of the series of the feed.
InputDates == UNION {feed[s].first .. feed[s].last : s \in DOMAIN feed}

\* initial_cash: the cash the ledger was built with (no trade precedes the
\* first snapshot).
InitialCash ==
    IF Len(portfolio.history) = 0 THEN portfolio.cash
    ELSE portfolio.history[1].cash

\* C8: run returns no summary whenever the union of the timestamps of all
\* series has fewer than 14 distinct values.
C8_InsufficientData ==
    (pc = "done" /\ Cardinality(InputDates) < 14) => result.kind = "None"

\* C8 witness: run has returned None for two series of 7 and 9 points that
\* overlap, 13 dates in all.
C8_Witness ==
    /\ pc = "done" /\ result.kind = "None"
    /\ DOMAIN feed = {"A", "B"}
    /\ Cardinality(InputDates) = 13
    /\ (feed["A"].last - feed["A"].first + 1)
         + (feed["B"].last - feed["B"].first + 1) >= 14

\* C9 as stated: a run on at least 14 timestamps that recorded no snapshot
\* beyond the initial one returns no summary.
C9_EmptyHistoryFails ==
    (pc = "done" /\ Cardinality(InputDates) >= 14
       /\ Len(portfolio.history) <= 1) => result.kind = "None"

\* C9 amended: a run on at least 14 timestamps records no snapshot beyond
\* the initial one only when weeks is 0, and then it does not return None:
\* it returns a summary over the one snapshot, with final_value =
\* initial_value and no trade, or raises when that value is 0.
C9_OneSnapshotSummary ==
    (pc = "done" /\ Cardinality(InputDates) >= 14
       /\ Len(portfolio.history) <= 1) =>
        /\ weeks = 0
        /\ Len(portfolio.history) = 1
        /\ result.kind # "None"
        /\ result.kind = "summary" <=> InitialCash # 0
        /\ result.kind = "summary" =>
             /\ result.initial_value = InitialCash
             /\ result.final_value = result.initial_value
             /\ result.total_trades = 0
             /\ Len(result.portfolio_history) = 1

\* C9 witness: run has returned a summary after taking the initial snapshot
\* only.
C9_Witness ==
    /\ pc = "done" /\ Cardinality(InputDates) >= 14
    /\ Len(portfolio.history) = 1
    /\ result.kind = "summary"

\* C10: for every input with at least 14 distinct timestamps, weeks >= 1 and
\* initial_cash >= 0, run returns a summary and does not raise.
C10_RunNeverRaises ==
    (pc = "done" /\ Cardinality(InputDates) >= 14 /\ weeks >= 1
       /\ InitialCash >= 0) => result.kind = "summary"

\* ------------------------------------------------------ claims on the engine

\* The prices of the series the last call was made on.
CalledOn == PricesOf(args.data[ret.symbol])

IsFinitePrice(x) == ~IsNaN(x) /\ ~IsInf(x)

\* r is the number (latest - ref) / ref.
ChangeIs(r, latest, ref) ==
    IsFiniteRatio(r) /\ r.num * ref = (latest - ref) * r.den

\* latest and ref are numbers and ref is not within 1e-10 of 0.
Usable(latest, ref) ==
    IsFinitePrice(latest) /\ IsFinitePrice(ref) /\ Abs(ref) >= PriceEps

\* C11: for a series with the point 7 observations before the latest one,
\* calculate_weekly_change returns (latest - ref) / ref with ref that point;
\* for a series of 2 to 6 points ref is the earliest point.  (With exactly 7
\* points no observation lies 7 back, and nothing is asked.)
C11_ReferenceSevenBack ==
    ret.fn = "calculate_weekly_change" =>
        LET q == CalledOn
            n == Len(q)
        IN  /\ (n >= 8 /\ Usable(q[n], q[n - 7]))
                 => ChangeIs(ret.change, q[n], q[n - 7])
            /\ (n >= 2 /\ n <= 6 /\ Usable(q[n], q[1]))
                 => ChangeIs(ret.change, q[n], q[1])

\* C12: calculate_weekly_change returns None exactly when the series has
\* fewer than 2 points, or the latest or the reference price is nan or
\* infinite, or the reference price is within 1e-10 of 0; what it returns
\* otherwise is a finite number.
C12_NoneExactlyWhenUnusable ==
    ret.fn = "calculate_weekly_change" =>
        LET q == CalledOn
            n == Len(q)
        IN  IF n < 2 THEN IsNone(ret.change)
            ELSE LET ref == IF n >= 7 THEN q[n - 6] ELSE q[1]
                 IN  /\ IsNone(ret.change) <=> ~Usable(q[n], ref)
                     /\ ~IsNone(ret.change) => IsFiniteRatio(ret.change)

\* change <= threshold and change >= threshold, the threshold in basis
\* points: false for nan.
AtMost(chg, threshold) ==
    \/ chg = InfRatio(-1)
    \/ IsFiniteRatio(chg) /\ chg.num * RScale <= threshold * chg.den

AtLeast(chg, threshold) ==
    \/ chg = InfRatio(1)
    \/ IsFiniteRatio(chg) /\ chg.num * RScale >= threshold * chg.den

\* Seven points at 100 and then the point 'last'.
FlatThen(last) == PricesOf(PatternSeries(8, "flat", last))

\* C13: generate_signal returns HOLD with amount 0 when the weekly change is
\* None; otherwise BUY with buy_amount when change <= buy_threshold, else
\* SELL with sell_amount when change >= sell_threshold, else HOLD with
\* amount 0; with the default thresholds a flat series followed by 0.94x
\* gives BUY 5.0, by 1.12x SELL 10.0, by 1.03x HOLD 0.0.
C13_SignalRule ==
    ret.fn = "generate_signal" =>
        LET q   == CalledOn
            chg == calculate_weekly_change(q)
            eng == args.eng
        IN  /\ ret.sig.pct_change = chg
            /\ IF IsNone(chg)
               THEN ret.sig.signal = "HOLD" /\ ret.sig.amount = 0
               ELSE IF AtMost(chg, eng.buy_threshold)
               THEN ret.sig.signal = "BUY" /\ ret.sig.amount = eng.buy_amount
               ELSE IF AtLeast(chg, eng.sell_threshold)
               THEN ret.sig.signal = "SELL" /\ ret.sig.amount = eng.sell_amount
               ELSE ret.sig.signal = "HOLD" /\ ret.sig.amount = 0
            /\ (eng = DefaultEngine /\ q = FlatThen(94))
                 => ret.sig.signal = "BUY" /\ ret.sig.amount = 5000
            /\ (eng = DefaultEngine /\ q = FlatThen(112))
                 => ret.sig.signal = "SELL" /\ ret.sig.amount = 10000
            /\ (eng = DefaultEngine /\ q = FlatThen(103))
                 => ret.sig.signal = "HOLD" /\ ret.sig.amount = 0

\* C13 witness: generate_signal has returned BUY for a change of exactly
\* -5% under the default thresholds.
C13_Witness ==
    /\ ret.fn = "generate_signal" /\ args.eng = DefaultEngine
    /\ CalledOn = FlatThen(95)
    /\ ret.sig.signal = "BUY" /\ ret.sig.amount = 5000

\* amount / latest, 0 when latest is within 1e-10 of 0 (or infinite).
ExpectedShares(amount, latest) ==
    IF Abs(latest) <= PriceEps \/ IsInf(latest) THEN 0
    ELSE IF latest > 0 THEN FDiv(amount, latest)
    ELSE -FDiv(amount, -latest)

\* C14: execute_trades returns an entry for a symbol exactly when
\* generate_signal on its series is BUY or SELL; the entry carries the
\* signal, its amount, the weekly change, the latest price and
\* shares = amount / latest price, 0 when the latest price is at most 1e-10
\* in magnitude.
C14_TradesAreTheSignals ==
    ret.fn = "execute_trades" =>
        /\ DOMAIN ret.trades \subseteq DOMAIN args.data
        /\ \A s \in DOMAIN args.data :
              LET q   == PricesOf(args.data[s])
                  sig == generate_signal(args.eng, q)
              IN  /\ s \in DOMAIN ret.trades <=> sig.signal \in {"BUY", "SELL"}
                  /\ s \in DOMAIN ret.trades =>
                       /\ ret.trades[s].signal = sig.signal
                       /\ ret.trades[s].amount = sig.amount
                       /\ ret.trades[s].weekly_change = sig.pct_change
                       /\ ret.trades[s].price = q[Len(q)]
                       /\ ret.trades[s].shares
                            = ExpectedShares(sig.amount, q[Len(q)])

\* C14 witness: execute_trades has left out a symbol that holds and
\* returned a symbol that buys, with its shares.
C14_Witness ==
    /\ ret.fn = "execute_trades"
    /\ DOMAIN args.data = {"A", "B"}
    /\ DOMAIN ret.trades = {"B"}
    /\ ret.trades["B"].signal = "BUY"
    /\ ret.trades["B"].shares > 0

RECURSIVE AmountSum(_, _)
\* The sum of the amounts of the entries of trades at the symbols in S.
AmountSum(S, trades) ==
    IF S = {} THEN 0
    ELSE LET s == CHOOSE x \in S : TRUE
         IN  trades[s].amount + AmountSum(S \ {s}, trades)

\* C15: get_trade_summary counts the BUY and the SELL entries, sums their
\* amounts, net_position = sell_value - buy_value, total_buys + total_sells
\* is the number of entries, and an empty input gives 0 in all five fields.
C15_SummaryPartitions ==
    ret.fn = "get_trade_summary" =>
        LET t     == ret.trades
            buys  == {s \in DOMAIN t : t[s].signal = "BUY"}
            sells == {s \in DOMAIN t : t[s].signal = "SELL"}
            sm    == ret.summary
        IN  /\ sm.total_buys = Cardinality(buys)
            /\ sm.total_sells = Cardinality(sells)
            /\ sm.buy_value = AmountSum(buys, t)
            /\ sm.sell_value = AmountSum(sells, t)
            /\ sm.net_position = sm.sell_value - sm.buy_value
            /\ sm.total_buys + sm.total_sells = Cardinality(DOMAIN t)
            /\ DOMAIN t = {} =>
                 sm = [total_buys |-> 0, total_sells |-> 0, buy_value |-> 0,
                       sell_value |-> 0, net_position |-> 0]

\* C15 witness: a summary of one BUY and one SELL.
C15_Witness ==
    /\ ret.fn = "get_trade_summary"
    /\ ret.summary.total_buys = 1 /\ ret.summary.total_sells = 1
    /\ ret.summary.net_position # 0

\* ---------------------------------------------------- claims on the selector

\* The symbols of a list.
Listed(universe) == {universe[k] : k \in 1..Len(universe)}

\* C16: filter_stocks never returns a symbol whose series has fewer than
\* min_data_points observations, whatever the input map and the selector.
C16_NoShortSeriesSelected ==
    ret.fn = "filter_stocks" =>
        \A s \in Listed(ret.universe) :
            /\ s \in DOMAIN args.data
            /\ Len(args.data[s]) >= args.sel.min_data_points

\* C16 witness: filter_stocks has returned one symbol and left out the
\* other, whose series is too short.
C16_Witness ==
    /\ ret.fn = "filter_stocks"
    /\ DOMAIN args.data = {"A", "B"}
    /\ ret.universe = <<"B">>
    /\ Len(args.data["A"]) < args.sel.min_data_points

\* The three gates: enough points, a volatility that is a number inside
\* [min_volatility, max_volatility], a score above 0.30.
PassesGates(sel, q) ==
    /\ Len(q) >= sel.min_data_points
    /\ LET v  == calculate_volatility(q)
           sc == calculate_predictability_score(sel, q)
       IN  /\ v # NaN
           /\ sel.min_volatility <= v /\ v <= sel.max_volatility
           /\ IsFiniteRatio(sc)
           /\ 10 * sc.num > 3 * sc.den

\* C17: is_suitable is true exactly when the three gates pass, and
\* filter_stocks returns exactly the symbols for which that is so.
C17_SuitableIffGates ==
    /\ ret.fn = "is_suitable" =>
          (ret.suitable <=> PassesGates(args.sel, CalledOn))
    /\ ret.fn = "filter_stocks" =>
          /\ Listed(ret.universe)
               = {s \in DOMAIN args.data :
                     PassesGates(args.sel, PricesOf(args.data[s]))}
          /\ Len(ret.universe) = Cardinality(Listed(ret.universe))

\* C17 witness: is_suitable has rejected a series that has enough points
\* and a volatility inside the band, and whose score is exactly 0.30.
C17_Witness ==
    /\ ret.fn = "is_suitable" /\ ~ret.suitable
    /\ Len(CalledOn) >= args.sel.min_data_points
    /\ LET v  == calculate_volatility(CalledOn)
           sc == calculate_predictability_score(args.sel, CalledOn)
       IN  /\ v # NaN
           /\ args.sel.min_volatility < v /\ v < args.sel.max_volatility
           /\ IsFiniteRatio(sc) /\ 10 * sc.num = 3 * sc.den

\* C18: for every series and every selector with min_volatility <=
\* max_volatility, calculate_predictability_score returns a number in
\* [0, 1]; where the band has a width and the score is computed from the
\* returns it is 0.6 * volatility_score + 0.4 * consistency_score, the
\* volatility score being 0 outside the band and
\* 1 - |volatility - midpoint| / half-width inside it.
C18_ScoreInUnitInterval ==
    (ret.fn = "calculate_predictability_score"
       /\ args.sel.min_volatility <= args.sel.max_volatility) =>
        LET q     == CalledOn
            sel   == args.sel
            sc    == ret.score
            v     == calculate_volatility(q)
            width == sel.max_volatility - sel.min_volatility
            vs    == IF v < sel.min_volatility \/ v > sel.max_volatility
                     THEN 0
                     ELSE width - Abs(2 * v - sel.min_volatility
                                            - sel.max_volatility)
            cs    == same_direction(pct_change(q))
        IN  /\ IsFiniteRatio(sc)
            /\ 0 <= sc.num /\ sc.num <= sc.den
            /\ (width > 0 /\ Len(q) >= sel.min_data_points /\ Len(q) >= 3
                  /\ v # NaN)
                 => IF vs = 0
                    THEN sc.num * 10 * (Len(q) - 2) = sc.den * 4 * cs
                    ELSE /\ sc.den = 10 * width * (Len(q) - 2)
                         /\ sc.num = 6 * vs * (Len(q) - 2) + 4 * cs * width

\* ------------------------------------------------- claims on the results

\* The highest total_value among the first k snapshots of history h.
PeakAt(h, k) ==
    CHOOSE m \in {h[j].total_value : j \in 1..k} :
        \A j \in 1..k : h[j].total_value <= m

\* r is the largest of the declines (peak - value) / peak over the
\* snapshots of h.
IsLargestDecline(r, h) ==
    /\ \A k \in 1..Len(h) :
          (PeakAt(h, k) - h[k].total_value) * r.den <= r.num * PeakAt(h, k)
    /\ \E k \in 1..Len(h) :
          (PeakAt(h, k) - h[k].total_value) * r.den = r.num * PeakAt(h, k)

\* The max_drawdown of the results over the first k snapshots of h.
DrawdownOver(h, k) ==
    calculate_results([portfolio EXCEPT !.history = SubSeq(h, 1, k)],
                      << >>).max_drawdown

\* C19: the max drawdown of a summary is the largest relative decline
\* (peak - value) / peak from the running peak of total_value over the
\* history it was computed on; for positive values it lies in [0, 1]; it
\* does not decrease as snapshots are appended; it is 0 when total_value
\* never falls.
C19_MaxDrawdown ==
    result.kind = "summary" =>
        LET h  == result.portfolio_history
            dd == result.max_drawdown
        IN  /\ IsFiniteRatio(dd)
            /\ IsLargestDecline(dd, h)
            /\ 0 <= dd.num /\ dd.num <= dd.den
            /\ \A k \in 1..(Len(h) - 1) :
                  RatioLeq(DrawdownOver(h, k), DrawdownOver(h, k + 1))
            /\ DrawdownOver(h, Len(h)) = dd
            /\ (\A k \in 1..(Len(h) - 1) :
                    h[k].total_value <= h[k + 1].total_value) => dd.num = 0

\* C19 witness: a summary over a history that rises, falls and recovers in
\* part, whose max drawdown is the fall from the peak.
C19_Witness ==
    /\ result.kind = "summary"
    /\ Len(result.portfolio_history) = 4
    /\ result.portfolio_history[1].total_value = 1
    /\ result.portfolio_history[2].total_value = 3
    /\ result.portfolio_history[3].total_value = 1
    /\ result.portfolio_history[4].total_value = 2
    /\ result.max_drawdown.num * 3 = 2 * result.max_drawdown.den

\* C20: in every summary run returns, initial_value is the total_value of
\* the first snapshot and is the initial cash, the ledger holding nothing
\* at that snapshot; final_value is the total_value of the last snapshot;
\* total_return_pct = (final_value - initial_value) / initial_value * 100;
\* total_trades = buy_trades + sell_trades = the length of trade_log.  The
\* first snapshot is taken on the ledger as built, so its total_value is
\* the cash the ledger was built with.
C20_SummaryFields ==
    /\ [](result.kind = "summary" =>
            LET h == portfolio.history
            IN  /\ pc = "done"
                /\ result.initial_value = h[1].total_value
                /\ result.initial_value = h[1].cash
                /\ ReadSnapshot(portfolio, 1).holdings = EmptyDict
                /\ result.final_value = h[Len(h)].total_value
                /\ result.total_return_pct.den = result.initial_value
                /\ result.total_return_pct.num
                     = (result.final_value - result.initial_value) * 100
                /\ result.total_trades = result.buy_trades + result.sell_trades
                /\ result.total_trades = Len(trade_log)
                /\ result.trade_log = trade_log
                /\ result.buy_trades
                     = Cardinality({k \in 1..Len(trade_log) :
                                       trade_log[k].action = "BUY"}))
    /\ [][(pc = "start" /\ pc' = "loop") =>
            /\ portfolio.history = << >>
            /\ portfolio.holdings = EmptyDict
            /\ Len(portfolio'.history) = 1
            /\ portfolio'.history[1].total_value = portfolio.cash]_vars

\* C20 witness: run has returned a summary of a run that bought and sold
\* and ended above its initial value.
C20_Witness ==
    /\ pc = "done" /\ result.kind = "summary"
    /\ result.buy_trades >= 1 /\ result.sell_trades >= 1
    /\ result.final_value > result.initial_value

\* ------------------------------------------------- claims on the driver

\* The timestamps of series that are at or before t.
KnownAt(series, t) == {series[k].t : k \in {j \in 1..Len(series) : series[j].t <= t}}

\* The last known price of a series at t: the price of its latest point at
\* or before t.
LastKnownPrice(series, t) ==
    PriceAt(series, CHOOSE d \in KnownAt(series, t) :
                        \A e \in KnownAt(series, t) : e <= d)

\* The last known prices at t of the symbols that have one.
LastKnownPrices(data, t) ==
    [s \in {x \in DOMAIN data : KnownAt(data[x], t) # {}} |->
        LastKnownPrice(data[s], t)]

\* C22: at every snapshot recorded during a run, every held symbol has a
\* last known price at the snapshot's timestamp, and total_value is cash
\* plus the sum over the held symbols of shares times that price.
C22_SnapshotValue ==
    \A k \in 1..Len(portfolio.history) :
        LET rec  == portfolio.history[k]
            held == rec.holdings.dict
        IN  /\ \A s \in DOMAIN held :
                   s \in DOMAIN stock_data
                     /\ KnownAt(stock_data[s], rec.date) # {}
            /\ rec.total_value =
                   rec.cash + HeldValue(DOMAIN held, held,
                                        LastKnownPrices(stock_data, rec.date))
            /\ rec.holdings_value = rec.total_value - rec.cash

\* C22 witness: the last snapshot was taken while a symbol was held whose
\* series has no point at the snapshot's timestamp, so that it was valued
\* at an earlier price.
C22_Witness ==
    /\ pc = "done" /\ Len(portfolio.history) > 1
    /\ LET rec == portfolio.history[Len(portfolio.history)]
       IN  \E s \in DOMAIN rec.holdings.dict :
              /\ rec.holdings.dict[s] > 0
              /\ rec.date \notin DatesOf(stock_data[s])
              /\ rec.holdings_value > 0

\* The sorted distinct timestamps d of the input: d[k] of the claim is
\* SortedDates[k + 1].
SortedDates == SortedSeq(InputDates)

\* The number of the indices 7, 14, 21, ... that are below n.
StrideIndicesBelow(n) == Cardinality({j \in 1..n : 7 * j < n})

\* K = min(W, number of indices 7, 14, 21, ... below N).
StepsToTake == Min(weeks, StrideIndicesBelow(Cardinality(InputDates)))

\* The number of steps run has still to take, its return included: it is
\* never negative and a run has ended when it is 0.
StepsLeft ==
    IF pc = "done" THEN 0
    ELSE IF pc = "start" THEN StepsToTake + 2
    ELSE StepsToTake + 1 - weeks_processed

\* C23: on at least 14 distinct timestamps d[0..N-1] and weeks = W >= 0, run
\* terminates after exactly K = min(W, number of indices 7, 14, ... < N)
\* steps: the loop goes on exactly while fewer than K steps were taken and
\* every step brings the end nearer; the history is one snapshot per step
\* taken, 1 + K at the end, with the timestamps d[0], d[7], ..., d[7K] in
\* that order.
C23_StepsAndSnapshots ==
    /\ []((Cardinality(InputDates) >= 14 /\ weeks >= 0) =>
            /\ pc = "done" =>
                  /\ weeks_processed = StepsToTake
                  /\ Len(portfolio.history) = 1 + StepsToTake
            /\ pc = "loop" =>
                  /\ weeks_processed <= StepsToTake
                  /\ Len(portfolio.history) = 1 + weeks_processed
                  /\ (i < Len(SortedDates) /\ weeks_processed < weeks)
                        <=> weeks_processed < StepsToTake
            /\ \A k \in 1..Len(portfolio.history) :
                  portfolio.history[k].date = SortedDates[7 * (k - 1) + 1]
            /\ \A k \in 2..Len(portfolio.history) :
                  portfolio.history[k - 1].date < portfolio.history[k].date)
    /\ [][(Cardinality(InputDates) >= 14 /\ weeks >= 0) =>
            (StepsLeft' < StepsLeft /\ StepsLeft' >= 0)]_vars

\* C23 witness: run has ended because the dates ran out before the weeks
\* did, after 5 steps on 41 dates with weeks = 8.
C23_Witness ==
    /\ pc = "done"
    /\ Cardinality(InputDates) = LongDays - 9
    /\ weeks = LongWeeks
    /\ StepsToTake = StrideIndicesBelow(Cardinality(InputDates))
    /\ StepsToTake < weeks
    /\ Len(portfolio.history) = 1 + StepsToTake

\* The data with every price after t changed: to a fall of 1 a day that
\* ends at 90 ("slide"), by 5 ("lift").
LaterPricesChanged(data, t, how) ==
    [s \in DOMAIN data |->
        [k \in 1..Len(data[s]) |->
            IF data[s][k].t <= t THEN data[s][k]
            ELSE [t |-> data[s][k].t,
                  p |-> IF how = "slide"
                        THEN 90 + (LongDays - data[s][k].t)
                        ELSE data[s][k].p + 5]]]

\* The data without the symbols that have no point at or before t.
KnownSymbolsOnly(data, t) ==
    [s \in {x \in DOMAIN data : KnownAt(data[x], t) # {}} |-> data[s]]

\* The timestamp of the last step taken (of the first snapshot before any).
LastStepDate == portfolio.history[Len(portfolio.history)].date

\* The ledger and the trade log after as many steps as were taken, on data.
StepsOn(data) ==
    run(NewPortfolio(InitialCash), << >>, data, weeks_processed)

\* C24: the trades logged and the snapshots recorded up to the step with
\* timestamp t are the same when every price after t is changed, and the
\* same without the symbols that have no price at or before t; every trade
\* is made at the symbol's last price at or before its date.
C24_NoLookAhead ==
    (pc \in {"loop", "done"} /\ Len(portfolio.history) > 0) =>
        /\ \A how \in {"slide", "lift"} :
              \E r \in {StepsOn(LaterPricesChanged(stock_data, LastStepDate,
                                                   how))} :
                 r.pf = portfolio /\ r.log = trade_log
        /\ \E r \in {StepsOn(KnownSymbolsOnly(stock_data, LastStepDate))} :
              r.pf = portfolio /\ r.log = trade_log
        /\ \A k \in 1..Len(trade_log) :
              /\ KnownAt(stock_data[trade_log[k].symbol],
                         trade_log[k].date) # {}
              /\ trade_log[k].price =
                    LastKnownPrice(stock_data[trade_log[k].symbol],
                                   trade_log[k].date)

\* C24 witness: a step has logged a trade while the data has prices after
\* the step's timestamp.
C24_Witness ==
    /\ pc = "loop" /\ Len(trade_log) > 0
    /\ trade_log[Len(trade_log)].date = LastStepDate
    /\ \E s \in DOMAIN feed : feed[s].last > LastStepDate

\* A step of the while loop, from the state before it to the state after.
IsStep == pc = "loop" /\ pc' = "loop" /\ i' = i + Stride

\* The timestamp of the step about to be taken, in a state of the loop.
StepDate == SortedDates[i + 1]

\* The decisions of the algorithm at the step with timestamp t: a dict
\* symbol -> trade.
DecisionsAt(t) ==
    algorithm_run(DefaultSelector, DefaultEngine,
                  WindowData(stock_data, t)).trades

\* The entries a step appends to the trade log.
Appended == SubSeq(trade_log', Len(trade_log) + 1, Len(trade_log'))

\* The entries of log for symbol s.
EntriesFor(log, s) == SelectSeq(log, LAMBDA e : e.symbol = s)

\* What the trades of log add to the cash: the proceeds of the sells less
\* the costs of the buys.
CashFlow(log) ==
    SeqSum([k \in 1..Len(log) |->
               IF log[k].action = "SELL" THEN log[k].shares * log[k].price
               ELSE 0 - log[k].shares * log[k].price])

\* C25: at a step, a SELL decision for a held symbol is executed with
\* shares = min(sell amount / price, held balance), never more than held,
\* and the sell succeeds: it is logged and the balance falls by the shares;
\* a SELL decision for a symbol that is not held logs nothing and leaves
\* the symbol unheld; the cash changes by the logged trades only.
C25_SellCapped ==
    [][IsStep =>
         \E trades \in {DecisionsAt(StepDate)} :
            /\ portfolio'.cash = portfolio.cash + CashFlow(Appended)
            /\ \A s \in DOMAIN trades :
                  trades[s].signal = "SELL" =>
                    LET price == LastKnownPrice(stock_data[s], StepDate)
                        held  == Balance(portfolio.holdings, s)
                        new   == EntriesFor(Appended, s)
                    IN  IF s \in DOMAIN portfolio.holdings
                        THEN /\ Len(new) = 1
                             /\ new[1].action = "SELL"
                             /\ new[1].price = price
                             /\ new[1].shares =
                                   Min(FDiv(trades[s].amount, price), held)
                             /\ new[1].shares <= held
                             /\ Balance(portfolio'.holdings, s) =
                                   IF held - new[1].shares < DustEps THEN 0
                                   ELSE held - new[1].shares
                        ELSE /\ Len(new) = 0
                             /\ s \notin DOMAIN portfolio'.holdings
     ]_vars

\* C25 witness: the trade log has a sell of less than the sell amount, all
\* that was held, and a sell that left the symbol held.
C25_Witness ==
    /\ \E k \in 1..Len(trade_log) :
          /\ trade_log[k].action = "SELL"
          /\ trade_log[k].symbol \notin DOMAIN portfolio.holdings
          /\ trade_log[k].amount + trade_log[k].price < SellAmount
    /\ \E k \in 1..Len(trade_log) :
          /\ trade_log[k].action = "SELL"
          /\ trade_log[k].symbol \in DOMAIN portfolio.holdings
          /\ trade_log[k].date = LastStepDate

\* Symbol r is processed before symbol s in a step.
Precedes(r, s) ==
    \E j, k \in 1..Len(SymbolOrder) :
        j < k /\ SymbolOrder[j] = r /\ SymbolOrder[k] = s

\* log is a prefix of log2.
IsPrefix(log, log2) ==
    Len(log) <= Len(log2) /\ SubSeq(log2, 1, Len(log)) = log

\* C26: the trade log only grows by appending; at a step, a decision gets
\* an entry exactly when its ledger call returned true (a BUY when its cost
\* was within the cash left by the trades before it, a SELL when the symbol
\* was held), and a skipped decision leaves the log and the symbol's
\* balance as they were; an entry has the step's timestamp and the
\* decision's weekly_change, which is not None; the dates of the log never
\* decrease.
C26_LogFollowsLedger ==
    /\ [](\A k \in 2..Len(trade_log) :
             trade_log[k - 1].date <= trade_log[k].date)
    /\ [][IsPrefix(trade_log, trade_log')]_vars
    /\ [][IsStep =>
           \E trades \in {DecisionsAt(StepDate)} :
             /\ \A k \in 1..Len(Appended) :
                   /\ Appended[k].symbol \in DOMAIN trades
                   /\ Appended[k].date = StepDate
                   /\ Appended[k].action = trades[Appended[k].symbol].signal
                   /\ Appended[k].weekly_change =
                         trades[Appended[k].symbol].weekly_change
                   /\ ~IsNone(Appended[k].weekly_change)
             /\ \A s \in DOMAIN trades :
                   LET price  == LastKnownPrice(stock_data[s], StepDate)
                       held   == Balance(portfolio.holdings, s)
                       before == SelectSeq(Appended,
                                           LAMBDA e : Precedes(e.symbol, s))
                       cash   == portfolio.cash + CashFlow(before)
                       accepted ==
                           IF trades[s].signal = "BUY"
                           THEN FDiv(trades[s].amount, price) * price <= cash
                           ELSE s \in DOMAIN portfolio.holdings
                   IN  /\ Len(EntriesFor(Appended, s)) =
                             IF accepted THEN 1 ELSE 0
                       /\ ~accepted =>
                             Balance(portfolio'.holdings, s) = held
          ]_vars

\* C26 witness: at the last step one decision was logged and another, a BUY
\* the cash did not cover, was not.
C26_Witness ==
    /\ pc = "loop" /\ Len(trade_log) > 0
    /\ trade_log[Len(trade_log)].date = LastStepDate
    /\ \E s \in DOMAIN DecisionsAt(LastStepDate) :
          /\ DecisionsAt(LastStepDate)[s].signal = "BUY"
          /\ \A k \in 1..Len(trade_log) :
                trade_log[k].symbol = s => trade_log[k].date < LastStepDate

\* The windowed series of symbol s at t: its points at or before t.
WindowOf(s, t) == SelectSeq(stock_data[s], LAMBDA e : e.t <= t)

\* The index of timestamp t in the sorted union of the timestamps, from 0.
DateIndex(t) == Cardinality({d \in InputDates : d < t})

\* C27: every logged trade was made at a step where the symbol's windowed
\* series had at least min_data_points (30) observations and passed the
\* filter, so at a timestamp of index min_data_points - 1 or more in the
\* sorted union; no symbol has two trades at one step.
C27_TradesNeedHistory ==
    /\ \A k \in 1..Len(trade_log) :
          \E w \in {WindowOf(trade_log[k].symbol, trade_log[k].date)} :
             /\ Len(w) >= MinDataPoints
             /\ is_suitable(DefaultSelector, PricesOf(w))
             /\ DateIndex(trade_log[k].date) >= MinDataPoints - 1
    /\ \A j, k \in 1..Len(trade_log) :
          (trade_log[j].symbol = trade_log[k].symbol
             /\ trade_log[j].date = trade_log[k].date) => j = k

\* C27 witness: a trade was logged at a step where the other symbol, with
\* fewer than 30 observations so far, had a signal and was not traded.
C27_Witness ==
    \E k \in 1..Len(trade_log) : \E s \in DOMAIN feed :
        \E w \in {WindowOf(s, trade_log[k].date)} :
            /\ s # trade_log[k].symbol
            /\ Len(w) >= WeekSpan /\ Len(w) < MinDataPoints
            /\ generate_signal(DefaultEngine, PricesOf(w)).signal # "HOLD"
            /\ \A j \in 1..Len(trade_log) :
                  trade_log[j].symbol = s =>
                      trade_log[j].date # trade_log[k].date

\* C28: a second call of run on the same Backtester starts from the cash,
\* the holdings, the history and the trade log the first left: the first
\* snapshot of the second run is appended to the history of the first and
\* moves neither cash nor holdings; the second summary's portfolio_history
\* and trade_log begin with those of the first summary and its
\* initial_value is the first run's initial snapshot value.
C28_RunKeepsLedger ==
    /\ [][(pc = "done" /\ pc' = "start") =>
             (portfolio' = portfolio /\ trade_log' = trade_log)]_vars
    /\ [][(pc = "start" /\ pc' = "loop") =>
             /\ portfolio'.history =
                   Append(portfolio.history,
                          portfolio'.history[Len(portfolio'.history)])
             /\ portfolio'.cash = portfolio.cash
             /\ portfolio'.holdings = portfolio.holdings
             /\ trade_log' = trade_log]_vars
    /\ []((pc = "done" /\ ncalls = 1 /\ ret.kind = "summary") =>
             /\ result.kind = "summary"
             /\ IsPrefix(ret.portfolio_history, result.portfolio_history)
             /\ IsPrefix(ret.trade_log, result.trade_log)
             /\ Len(result.portfolio_history) =
                   Len(ret.portfolio_history) + 1 + weeks_processed
             /\ result.initial_value = ret.initial_value
             /\ result.initial_value = ret.portfolio_history[1].total_value)

\* C28 witness: the second run has returned a summary after trading on top
\* of the holdings and the trade log the first run left.
C28_Witness ==
    /\ pc = "done" /\ ncalls = 1
    /\ ret.kind = "summary" /\ result.kind = "summary"
    /\ DOMAIN ret.final_holdings # {}
    /\ Len(ret.trade_log) > 0
    /\ Len(result.trade_log) > Len(ret.trade_log)

\* ------------------------------------------- claims on concurrent runs

\* What instance b has produced so far when it runs alone: Backtester.run on
\* a new instance, stopped after the steps b has taken.
Alone(b) ==
    run(NewPortfolio(backtesters[b].initial_cash), << >>, stock_data,
        IF backtesters[b].pc = "done" THEN backtesters[b].weeks
        ELSE backtesters[b].weeks_processed)

\* C21: under every interleaving of the steps of two runs on two instances,
\* the history (with cash and holdings) and the trade log of each instance
\* are at every step those of the same run alone, and so is the summary it
\* returns.
C21_RunsIndependent ==
    \A b \in DOMAIN backtesters :
        backtesters[b].pc \in {"loop", "done"} =>
            \E alone \in {Alone(b)} :
                /\ backtesters[OwnerOf(b)].portfolio = alone.pf
                /\ backtesters[OwnerOf(b)].trade_log = alone.log
                /\ backtesters[b].pc = "done" =>
                      backtesters[b].result = alone.result

\* C21 witness: the first run has returned its summary while the second,
\* with other cash, is still in its loop, and both have traded.
C21_Witness ==
    /\ DOMAIN backtesters = 1..2
    /\ backtesters[1].pc = "done" /\ backtesters[2].pc = "loop"
    /\ backtesters[1].initial_cash # backtesters[2].initial_cash
    /\ backtesters[1].result.total_trades > 0
    /\ Len(backtesters[2].trade_log) > 0
    /\ backtesters[2].trade_log # backtesters[1].trade_log

\* ------------------------------------- claims on run_backtest and the view

\* Backtester.run on a new Backtester with the weeks and the initial_cash of
\* the BacktestResult, on the same data.
ByBacktester ==
    run(NewPortfolio(args.initial_cash), << >>, stock_data, args.weeks)

\* The ledger run_backtest built went through the operations of the ledger
\* of Backtester.run: same cash, holdings and snapshots, and the same
\* trades logged, the dates of the entries being the same dates as text.
SameLedgerOperations(b) ==
    /\ portfolio = b.pf
    /\ Len(trade_log) = Len(b.log)
    /\ \A k \in 1..Len(trade_log) :
          /\ trade_log[k].date = isoformat(b.log[k].date)
          /\ trade_log[k].symbol = b.log[k].symbol
          /\ trade_log[k].action = b.log[k].action
          /\ trade_log[k].shares = b.log[k].shares
          /\ trade_log[k].price = b.log[k].price
          /\ trade_log[k].amount = b.log[k].amount
          /\ trade_log[k].weekly_change = b.log[k].weekly_change

\* The record run_backtest saved has the numbers of the summary, the
\* drawdown as a percentage.
StoredAsSummary(b) ==
    ret.ok =>
        /\ b.result.kind = "summary"
        /\ objects[1].has_results
        /\ objects[1].final_value = b.result.final_value
        /\ objects[1].total_return_pct = b.result.total_return_pct
        /\ objects[1].max_drawdown_pct =
              Ratio(100 * b.result.max_drawdown.num,
                    b.result.max_drawdown.den)
        /\ objects[1].total_trades = b.result.total_trades
        /\ objects[1].buy_trades = b.result.buy_trades
        /\ objects[1].sell_trades = b.result.sell_trades

\* C29 as stated: run_backtest performs the ledger operations of
\* Backtester.run, stores the numbers of its summary, and returns False
\* exactly where Backtester.run returns no summary.
C29_SameAsBacktester ==
    pc = "returned" =>
        \E b \in {ByBacktester} :
            /\ SameLedgerOperations(b)
            /\ StoredAsSummary(b)
            /\ ~ret.ok <=> b.result.kind # "summary"

\* C29 amended: run_backtest performs the ledger operations of
\* Backtester.run and stores the numbers of its summary; it returns False
\* where Backtester.run returns no summary (None, or the ZeroDivisionError
\* that run_backtest catches) and also where saving the record failed, and
\* nowhere else.
C29_SameUnlessSaveFails ==
    pc = "returned" =>
        \E b \in {ByBacktester} :
            /\ SameLedgerOperations(b)
            /\ StoredAsSummary(b)
            /\ ~ret.ok <=>
                  (b.result.kind # "summary" \/ ret.error = "save failed")
            /\ ret.error = "ZeroDivisionError" <=>
                  b.result.kind = "ZeroDivisionError"
            /\ ret.error = "save failed" => b.result.kind = "summary"

\* C29 witness: run_backtest has returned True after buying and selling,
\* a buy having been refused.
C29_Witness ==
    /\ pc = "returned" /\ ret.ok
    /\ objects[1].buy_trades = 3 /\ objects[1].sell_trades = 2
    /\ DOMAIN portfolio.holdings # {}

\* C30: after post has handled a valid form, the BacktestResult it created
\* is in the store exactly when run_backtest returned True, and then it has
\* its results and the response is the redirect; when run_backtest returned
\* False (nothing fetched, fewer than 14 timestamps, an exception inside,
\* a failed save) the record is gone.
C30_FailedBacktestDeleted ==
    (pc \in {"redirected", "rendered"} /\ FormIsValid(args)) =>
        /\ DOMAIN objects # {} <=> ret.ok
        /\ ret.ok <=> pc = "redirected"
        /\ ret.ok => (DOMAIN objects = {1} /\ objects[1].has_results)
        /\ ~ret.ok => objects = << >>

\* C30 witness: the backtest of a valid form ran to its end, the save
\* failed, and the record is not in the store.
C30_Witness ==
    /\ pc = "rendered" /\ FormIsValid(args)
    /\ ~ret.ok /\ ret.error = "save failed"
    /\ Len(trade_log) > 0
    /\ objects = << >>
====
